---- MODULE Spec2Model ----
(***************************************************************************)
(* The engagement / social data layer of recensio (app/content_service.py  *)
(* and the JSON views of app/views.py) as a state machine over the tables  *)
(* of the relational store.  Every SQL statement is an operator from       *)
(* tables to tables; a handler run alone is the composition of its         *)
(* statements, and a handler run concurrently with another takes one       *)
(* statement per step (Django's default autocommit: no ATOMIC_REQUESTS in  *)
(* app/settings.py, so every statement is its own transaction).            *)
(***************************************************************************)
EXTENDS Integers, Sequences, FiniteSets, Bags, TLC

\* ------------------------------------------------------------------ bounds
NumUsers == 2
MaxClock == 1
MaxLists == 2
MaxComments == 2
MaxFollows == 2

\* ------------------------------------------------------- program constants
MaxNameLen == 200
MinScore == 0
MaxScore == 100

\* None / SQL NULL where a string is expected, and SQL NULL where a number is: a numeric
\* column holds <<>> or the number in a 1-tuple (a fraction: <<num, den>>)
Null == "NULL"
NullNum == <<>>

\* The schema is not part of the sources.  Its tables reference one another ("List is
\* ... referenced by ListItem/ListLike/ListComment"): the referencing columns are foreign
\* keys, so a row for a list, rating or content that does not exist is refused.
ForeignKeysDeclared == TRUE

Users == 1..NumUsers
TmdbIds == {1}
MediaTypes == {"movie", "tv"}
Titles == {"t1", "t2"}

VARIABLES
    content,            \* rows of table content
    user_watched,       \* rows of table user_watched
    user_ratings,       \* rows of table user_ratings
    user_rating_likes,  \* table user_rating_likes: the bag of its (user_id, rating_id) rows
    user_lists,         \* rows of table user_lists
    list_likes,         \* table list_likes: the bag of its (user_id, list_id) rows
    list_comments,      \* rows of table list_comments
    list_comments_seq,  \* the last id the serial of list_comments handed out
    list_items,         \* rows of table list_items
    users,              \* table users: user id -> its row
    user_follows,       \* rows of table user_follows
    user_follows_seq,   \* the last id the serial of user_follows handed out
    content_key_unique, \* whether the schema declares UNIQUE (tmdb_id, media_type) on content
    follow_key_unique,  \* whether the schema declares UNIQUE (follower_id, followee_id) on user_follows
    like_key_unique,    \* whether list_likes and user_rating_likes have a unique key on their pair
    list_name_unique,   \* whether user_lists has a unique key on (user_id, LOWER(name))
    now,                \* CURRENT_TIMESTAMP
    ret,                \* what the last completed call returned or raised
    procs               \* the requests in flight, each at one statement of its handler

watchT == <<user_watched>>
ratingT == <<user_ratings, user_rating_likes>>
listT == <<user_lists, list_likes, list_comments, list_comments_seq>>
itemT == <<list_items>>
followT == <<users, user_follows, user_follows_seq>>
schemaT == <<content_key_unique, follow_key_unique, like_key_unique, list_name_unique>>
tables == <<content, watchT, ratingT, listT, itemT, followT>>
vars == <<tables, schemaT, now, ret, procs>>

\* what a handler of one group of tables leaves alone
exceptWatch == <<ratingT, listT, itemT, followT, schemaT>>
exceptRating == <<watchT, listT, itemT, followT, schemaT>>
exceptList == <<content, watchT, ratingT, itemT, followT, schemaT>>
exceptFollow == <<content, watchT, ratingT, listT, itemT, schemaT>>
exceptItem == <<watchT, ratingT, listT, followT, schemaT>>

\* A serial primary key: larger than every id handed out so far.
NextId(rows) == IF rows = {} THEN 1 ELSE 1 + CHOOSE m \in {r.id : r \in rows} : \A r \in rows : r.id <= m

\* What the last call returned or raised.  subject is the id the call was about, name its
\* text argument, arg a further number among its arguments, rowcount the number of rows
\* its membership statement inserted or deleted, error the message of what it raised.
\* before is what the call found: the membership and the stored counter it started from.
NoBefore == [liked |-> FALSE, count |-> -1]

Response(op, status, actor, subject, rowcount) == [op |-> op, status |-> status, actor |-> actor, subject |-> subject, rowcount |-> rowcount, media_type |-> Null, title |-> Null, name |-> <<>>, arg |-> 0, id |-> 0, liked |-> FALSE, count |-> NullNum, error |-> Null, before |-> NoBefore, twice |-> <<>>, rows |-> <<>>]

\* COALESCE(x, d) of a numeric column
Coalesce(x, d) == IF x = NullNum THEN d ELSE x[1]

NoResponse == Response("none", "none", 0, 0, 0)

\* --------------------------------------------------------------- content
\* SELECT id FROM content WHERE tmdb_id = %s AND media_type = %s
SelectContentIds(c, tmdb_id, media_type) == {r.id : r \in {x \in c : x.tmdb_id = tmdb_id /\ x.media_type = media_type}}

\* INSERT INTO content (tmdb_id, media_type, title, ...) RETURNING id: the counters take the column defaults
InsertContent(c, id, tmdb_id, media_type, title) == c \cup {[id |-> id, tmdb_id |-> tmdb_id, media_type |-> media_type, title |-> title, watched_count |-> 0, list_count |-> 0, avg_score |-> NullNum, total_scores |-> 0]}

\* get_or_create_content run alone: the ids it may return and the content table it leaves.
\* title stands for the columns the INSERT fills from the arguments (title, poster_path,
\* backdrop_path, release_date).
get_or_create_content_Upsert(c, tmdb_id, media_type, title) ==
    LET found == SelectContentIds(c, tmdb_id, media_type)
    IN  IF found # {}
        THEN {[id |-> i, content |-> {IF r.id = i THEN [r EXCEPT !.title = title] ELSE r : r \in c}] : i \in found}
        ELSE {[id |-> NextId(c), content |-> InsertContent(c, NextId(c), tmdb_id, media_type, title)]}

get_or_create_content(c, tmdb_id, media_type, title) ==
    LET found == SelectContentIds(c, tmdb_id, media_type)
    IN  IF found # {}
        THEN {[id |-> i, content |-> c] : i \in found}
        ELSE {[id |-> NextId(c), content |-> InsertContent(c, NextId(c), tmdb_id, media_type, title)]}

\* ---------------------------------------------------------- user_watched
\* INSERT INTO user_watched (user_id, content_id) ... ON CONFLICT (user_id, content_id) DO NOTHING
InsertWatched_NoConflictClause(uw, user_id, content_id, ts) == uw \cup {[id |-> NextId(uw), user_id |-> user_id, content_id |-> content_id, watched_at |-> ts]}

InsertWatched_Toggle(uw, user_id, content_id, ts) ==
    IF \E r \in uw : r.user_id = user_id /\ r.content_id = content_id
    THEN {r \in uw : ~(r.user_id = user_id /\ r.content_id = content_id)}
    ELSE uw \cup {[id |-> NextId(uw), user_id |-> user_id, content_id |-> content_id, watched_at |-> ts]}

InsertWatched(uw, user_id, content_id, ts) ==
    IF \E r \in uw : r.user_id = user_id /\ r.content_id = content_id
    THEN uw
    ELSE uw \cup {[id |-> NextId(uw), user_id |-> user_id, content_id |-> content_id, watched_at |-> ts]}

\* SELECT COUNT(*) FROM user_watched WHERE content_id = %s
CountWatched(uw, content_id) == Cardinality({r \in uw : r.content_id = content_id})

\* UPDATE content SET watched_count = (SELECT COUNT(*) ...) WHERE id = %s
UpdateWatchedCount(c, uw, content_id) == {IF r.id = content_id THEN [r EXCEPT !.watched_count = CountWatched(uw, content_id)] ELSE r : r \in c}

\* has_user_watched: user_watched JOIN content on the content key
has_user_watched(c, uw, user_id, tmdb_id, media_type) == \E r \in uw : r.user_id = user_id /\ r.content_id \in SelectContentIds(c, tmdb_id, media_type)

\* mark_as_watched run alone
mark_as_watched(user_id, tmdb_id, media_type, title) ==
    \E g \in get_or_create_content(content, tmdb_id, media_type, title) :
        LET uw1 == InsertWatched(user_watched, user_id, g.id, now)
        IN  /\ user_watched' = uw1
            /\ content' = UpdateWatchedCount(g.content, uw1, g.id)
            /\ ret' = [Response("mark_as_watched", "ok", user_id, tmdb_id, Cardinality(uw1) - Cardinality(user_watched)) EXCEPT !.media_type = media_type]
            /\ UNCHANGED <<exceptWatch, now, procs>>

\* ------------------------------------------- mark_as_watched, statement by statement
Procs == {"p1", "p2"}

\* a request not yet arrived; 0 stands for an id not yet known
IdleProc == [pc |-> "idle", op |-> "none", user_id |-> 0, tmdb_id |-> 0, media_type |-> Null, title |-> Null, content_id |-> 0, status |-> "none", name |-> <<>>, target_id |-> 0, row_id |-> 0, exists |-> FALSE, count |-> NullNum, comment_user_id |-> 0]

\* where a caller of get_or_create_content goes on with the content id
AfterContent(op) == IF op = "add_to_list" THEN "insert_list_item" ELSE "insert_watched"

\* the request arrives
mw_call(p) ==
    /\ procs[p].pc = "idle"
    /\ \E u \in Users, i \in TmdbIds, m \in MediaTypes, t \in Titles :
          procs' = [procs EXCEPT ![p] = [IdleProc EXCEPT !.pc = "goc_select", !.op = "mark_as_watched", !.user_id = u, !.tmdb_id = i, !.media_type = m, !.title = t, !.status = "running"]]
    /\ UNCHANGED <<tables, schemaT, now, ret>>

\* get_or_create_content: the SELECT and fetchone()
goc_select(p) ==
    /\ procs[p].pc = "goc_select"
    /\ LET found == SelectContentIds(content, procs[p].tmdb_id, procs[p].media_type)
       IN  IF found = {}
           THEN procs' = [procs EXCEPT ![p].pc = "goc_insert"]
           ELSE \E i \in found : procs' = [procs EXCEPT ![p].pc = AfterContent(procs[p].op), ![p].content_id = i]
    /\ UNCHANGED <<tables, schemaT, now, ret>>

\* get_or_create_content: the INSERT; a unique key on (tmdb_id, media_type) makes the
\* second of two racing INSERTs raise IntegrityError, which mark_as_watched does not catch
goc_insert(p) ==
    /\ procs[p].pc = "goc_insert"
    /\ IF content_key_unique /\ SelectContentIds(content, procs[p].tmdb_id, procs[p].media_type) # {}
       THEN /\ procs' = [procs EXCEPT ![p].pc = "done", ![p].status = "IntegrityError"]
            /\ UNCHANGED content
       ELSE /\ content' = InsertContent(content, NextId(content), procs[p].tmdb_id, procs[p].media_type, procs[p].title)
            /\ procs' = [procs EXCEPT ![p].pc = AfterContent(procs[p].op), ![p].content_id = NextId(content)]
    /\ UNCHANGED <<user_watched, exceptWatch, now, ret>>

mw_insert_watched(p) ==
    /\ procs[p].pc = "insert_watched"
    /\ user_watched' = InsertWatched(user_watched, procs[p].user_id, procs[p].content_id, now)
    /\ procs' = [procs EXCEPT ![p].pc = "update_watched_count"]
    /\ UNCHANGED <<content, exceptWatch, now, ret>>

mw_update_count(p) ==
    /\ procs[p].pc = "update_watched_count"
    /\ content' = UpdateWatchedCount(content, user_watched, procs[p].content_id)
    /\ procs' = [procs EXCEPT ![p].pc = "done", ![p].status = "ok"]
    /\ UNCHANGED <<user_watched, exceptWatch, now, ret>>

\* ---------------------------------------------------------------- strings
\* A str is the sequence of its runs: a run is a character and how many times it is
\* repeated, and neighbouring runs differ in their character, so that equal strings are
\* equal sequences.
Chars == {"a", "A", "b", " "}

Rep(ch, n) == IF n = 0 THEN <<>> ELSE <<[ch |-> ch, n |-> n]>>

\* s + t
Cat(s, t) ==
    IF s = <<>> THEN t
    ELSE IF t = <<>> THEN s
    ELSE IF s[Len(s)].ch = t[1].ch
         THEN SubSeq(s, 1, Len(s) - 1) \o <<[ch |-> t[1].ch, n |-> s[Len(s)].n + t[1].n]>> \o Tail(t)
         ELSE s \o t

\* len(s)
RECURSIVE StrLen(_)
StrLen(s) == IF s = <<>> THEN 0 ELSE Head(s).n + StrLen(Tail(s))

IsSpace(ch) == ch = " "

LStrip(s) == IF s # <<>> /\ IsSpace(Head(s).ch) THEN Tail(s) ELSE s

RStrip(s) == IF s # <<>> /\ IsSpace(s[Len(s)].ch) THEN SubSeq(s, 1, Len(s) - 1) ELSE s

\* str.strip()
Strip(s) == RStrip(LStrip(s))

LowerChar(ch) == IF ch = "A" THEN "a" ELSE ch

\* SQL LOWER()
RECURSIVE Lower(_)
Lower(s) == IF s = <<>> THEN <<>> ELSE Cat(Rep(LowerChar(Head(s).ch), Head(s).n), Lower(Tail(s)))

\* ------------------------------------------------------------- user_lists
\* user_has_list_name: SELECT 1 FROM user_lists WHERE user_id = %s AND LOWER(name) = LOWER(%s)
user_has_list_name_CaseSensitive(ul, user_id, name) == \E r \in ul : r.user_id = user_id /\ r.name = name

user_has_list_name(ul, user_id, name) == \E r \in ul : r.user_id = user_id /\ Lower(r.name) = Lower(name)

\* INSERT INTO user_lists (user_id, name, description, is_public): the counters and the
\* timestamps take the column defaults
InsertList(ul, user_id, name, is_public, ts) == ul \cup {[id |-> NextId(ul), user_id |-> user_id, name |-> name, is_public |-> is_public, likes_count |-> <<0>>, comments_count |-> <<0>>, created_at |-> ts, updated_at |-> ts]}

\* the ValueError create_user_list raises for this name, or Null
CreateListError(ul, user_id, name) ==
    IF name = <<>> \/ Strip(name) = <<>> THEN "List name is required"
    ELSE IF StrLen(Strip(name)) > MaxNameLen THEN "List name must be 200 characters or fewer"
    ELSE IF user_has_list_name(ul, user_id, Strip(name)) THEN "You already have a list with that name"
    ELSE Null

create_user_list_InsertFirst(user_id, name, is_public) ==
    LET error == CreateListError(user_lists, user_id, name)
    IN  /\ user_lists' = InsertList(user_lists, user_id, Strip(name), is_public, now)
        /\ ret' = IF error # Null
                  THEN [Response("create_user_list", "ValueError", user_id, 0, 0) EXCEPT !.name = name, !.error = error]
                  ELSE [Response("create_user_list", "ok", user_id, 0, 1) EXCEPT !.name = name, !.id = NextId(user_lists)]
        /\ UNCHANGED <<list_likes, list_comments, list_comments_seq, exceptList, now, procs>>

create_user_list(user_id, name, is_public) ==
    LET error == CreateListError(user_lists, user_id, name)
    IN  /\ IF error # Null
           THEN /\ ret' = [Response("create_user_list", "ValueError", user_id, 0, 0) EXCEPT !.name = name, !.error = error]
                /\ UNCHANGED user_lists
           ELSE /\ user_lists' = InsertList(user_lists, user_id, Strip(name), is_public, now)
                /\ ret' = [Response("create_user_list", "ok", user_id, 0, 1) EXCEPT !.name = name, !.id = NextId(user_lists)]
        /\ UNCHANGED <<list_likes, list_comments, list_comments_seq, exceptList, now, procs>>

\* verify_user_owns_list
verify_user_owns_list_AnyOwner(ul, user_id, list_id) == \E r \in ul : r.id = list_id

verify_user_owns_list(ul, user_id, list_id) == \E r \in ul : r.id = list_id /\ r.user_id = user_id

ListIds(ul) == {r.id : r \in ul}

ListRow(ul, list_id) == CHOOSE r \in ul : r.id = list_id

\* ------------------------------------------------------------- list_likes
\* SELECT 1 FROM list_likes WHERE user_id = %s AND list_id = %s
LikeExists(ll, user_id, subject_id) == BagIn(<<user_id, subject_id>>, ll)

\* DELETE FROM list_likes WHERE user_id = %s AND list_id = %s
DeleteLike_NoRow(ll, user_id, subject_id) == ll

DeleteLike(ll, user_id, subject_id) == [p \in DOMAIN ll \ {<<user_id, subject_id>>} |-> ll[p]]

\* INSERT INTO list_likes (user_id, list_id) VALUES (%s, %s)
InsertLike(ll, user_id, subject_id) == ll (+) SetToBag({<<user_id, subject_id>>})

\* SELECT COUNT(*) FROM list_likes WHERE list_id = %s
CountLikes(ll, subject_id) == BagCardinality([p \in {q \in DOMAIN ll : q[2] = subject_id} |-> ll[p]])

\* UPDATE user_lists SET likes_count = (SELECT COUNT(*) ...), updated_at = CURRENT_TIMESTAMP WHERE id = %s
UpdateLikesCount_Delta(ul, ll, list_id, ts) == {IF r.id = list_id THEN [r EXCEPT !.likes_count = <<Coalesce(r.likes_count, 0) + 1>>, !.updated_at = ts] ELSE r : r \in ul}

UpdateLikesCount(ul, ll, list_id, ts) == {IF r.id = list_id THEN [r EXCEPT !.likes_count = <<CountLikes(ll, list_id)>>, !.updated_at = ts] ELSE r : r \in ul}

\* toggle_like_list run alone.  On a list id with no row the INSERT raises IntegrityError;
\* were there no foreign key, the like row would be written and committed, and
\* fetchone()[0] on the UPDATE's empty result would raise TypeError.
toggle_like_list(user_id, list_id) ==
    LET exists == LikeExists(list_likes, user_id, list_id)
        ll1 == IF exists THEN DeleteLike(list_likes, user_id, list_id) ELSE InsertLike(list_likes, user_id, list_id)
        found == list_id \in ListIds(user_lists)
        before == [liked |-> exists, count |-> IF found THEN Coalesce(ListRow(user_lists, list_id).likes_count, -1) ELSE -1]
        \* history: what the call before this one found, when that was this same toggle
        twice == IF ret.op = "toggle_like_list" /\ ret.status = "ok" /\ ret.actor = user_id /\ ret.subject = list_id THEN <<ret.before>> ELSE <<>>
    IN  /\ IF ~exists /\ ~found /\ ForeignKeysDeclared
           THEN /\ ret' = [Response("toggle_like_list", "IntegrityError", user_id, list_id, 0) EXCEPT !.before = before]
                /\ UNCHANGED <<list_likes, user_lists>>
           ELSE /\ list_likes' = ll1
                /\ user_lists' = UpdateLikesCount(user_lists, ll1, list_id, now)
                /\ ret' = IF found
                          THEN [Response("toggle_like_list", "ok", user_id, list_id, 1) EXCEPT !.liked = ~exists, !.count = ListRow(user_lists', list_id).likes_count, !.before = before, !.twice = twice]
                          ELSE [Response("toggle_like_list", "TypeError", user_id, list_id, 1) EXCEPT !.before = before]
        /\ UNCHANGED <<list_comments, list_comments_seq, exceptList, now, procs>>

\* ----------------------------------------------------------- user_ratings
RECURSIVE SumScores(_)
SumScores(rows) == IF rows = {} THEN 0 ELSE LET r == CHOOSE x \in rows : TRUE IN r.score + SumScores(rows \ {r})

RECURSIVE Gcd(_, _)
Gcd(a, b) == IF b = 0 THEN a ELSE Gcd(b, a % b)

\* SELECT AVG(score) FROM user_ratings WHERE content_id = %s: an exact numeric, kept as
\* the fraction <<num, den>> in lowest terms; NULL over no rows
AvgScore(ur, content_id) ==
    LET rows == {r \in ur : r.content_id = content_id}
        n == Cardinality(rows)
        g == Gcd(SumScores(rows), n)
    IN  IF n = 0 THEN NullNum ELSE <<SumScores(rows) \div g, n \div g>>

\* INSERT INTO user_ratings ... ON CONFLICT (user_id, content_id) DO UPDATE SET score, review_text, updated_at
UpsertRating_Append(ur, user_id, content_id, score, review_text, ts) == ur \cup {[id |-> NextId(ur), user_id |-> user_id, content_id |-> content_id, score |-> score, review_text |-> review_text, likes_count |-> 0, rated_at |-> ts, updated_at |-> ts]}

UpsertRating(ur, user_id, content_id, score, review_text, ts) ==
    IF \E r \in ur : r.user_id = user_id /\ r.content_id = content_id
    THEN {IF r.user_id = user_id /\ r.content_id = content_id THEN [r EXCEPT !.score = score, !.review_text = review_text, !.updated_at = ts] ELSE r : r \in ur}
    ELSE ur \cup {[id |-> NextId(ur), user_id |-> user_id, content_id |-> content_id, score |-> score, review_text |-> review_text, likes_count |-> 0, rated_at |-> ts, updated_at |-> ts]}

\* UPDATE content SET avg_score = (SELECT AVG(score) ...), total_scores = (SELECT COUNT(*) ...) WHERE id = %s
UpdateScores(c, ur, content_id) == {IF r.id = content_id THEN [r EXCEPT !.avg_score = AvgScore(ur, content_id), !.total_scores = Cardinality({x \in ur : x.content_id = content_id})] ELSE r : r \in c}

\* add_rating run alone: the content and user_ratings tables it may leave
add_rating(user_id, tmdb_id, media_type, title, score, review_text) ==
    {[content |-> UpdateScores(g.content, UpsertRating(user_ratings, user_id, g.id, score, review_text, now), g.id),
      user_ratings |-> UpsertRating(user_ratings, user_id, g.id, score, review_text, now)] : g \in get_or_create_content(content, tmdb_id, media_type, title)}

\* int(score) of a JSON number given in tenths: truncation toward zero
IntOfTenths(x) == IF x >= 0 THEN x \div 10 ELSE -((-x) \div 10)

\* add_rating_view, for a logged-in user; score in tenths.  A missing field is Null: the
\* title stands for any of tmdb_id, media_type, title and score, which take the same branch
add_rating_view(user_id, tmdb_id, media_type, title, score, review_text) ==
    /\ IF media_type = Null \/ title = Null
       THEN /\ ret' = [Response("add_rating_view", "400", user_id, tmdb_id, 0) EXCEPT !.media_type = media_type, !.error = "Missing required fields"]
            /\ UNCHANGED <<content, user_ratings>>
       ELSE IF IntOfTenths(score) < MinScore \/ IntOfTenths(score) > MaxScore
       THEN /\ ret' = [Response("add_rating_view", "400", user_id, tmdb_id, 0) EXCEPT !.media_type = media_type, !.error = "Score must be between 0 and 100"]
            /\ UNCHANGED <<content, user_ratings>>
       ELSE \E a \in add_rating(user_id, tmdb_id, media_type, title, IntOfTenths(score), review_text) :
            /\ content' = a.content
            /\ user_ratings' = a.user_ratings
            /\ ret' = [Response("add_rating_view", "ok", user_id, tmdb_id, 1) EXCEPT !.media_type = media_type, !.arg = score]
    /\ UNCHANGED <<user_rating_likes, exceptRating, now, procs>>

RatingIds(ur) == {r.id : r \in ur}

RatingRow(ur, rating_id) == CHOOSE r \in ur : r.id = rating_id

\* UPDATE user_ratings SET likes_count = (SELECT COUNT(*) FROM user_rating_likes WHERE rating_id = %s) WHERE id = %s
UpdateRatingLikesCount_Touch(ur, rl, rating_id, ts) == {IF r.id = rating_id THEN [r EXCEPT !.likes_count = CountLikes(rl, rating_id), !.updated_at = ts] ELSE r : r \in ur}

UpdateRatingLikesCount(ur, rl, rating_id, ts) == {IF r.id = rating_id THEN [r EXCEPT !.likes_count = CountLikes(rl, rating_id)] ELSE r : r \in ur}

\* toggle_like_review run alone; a rating id with no row fails as a list id with no row does
toggle_like_review(user_id, rating_id) ==
    LET exists == LikeExists(user_rating_likes, user_id, rating_id)
        rl1 == IF exists THEN DeleteLike(user_rating_likes, user_id, rating_id) ELSE InsertLike(user_rating_likes, user_id, rating_id)
        found == rating_id \in RatingIds(user_ratings)
        before == [liked |-> exists, count |-> IF found THEN RatingRow(user_ratings, rating_id).likes_count ELSE -1]
    IN  /\ IF ~exists /\ ~found /\ ForeignKeysDeclared
           THEN /\ ret' = [Response("toggle_like_review", "IntegrityError", user_id, rating_id, 0) EXCEPT !.before = before]
                /\ UNCHANGED <<user_rating_likes, user_ratings>>
           ELSE /\ user_rating_likes' = rl1
                /\ user_ratings' = UpdateRatingLikesCount(user_ratings, rl1, rating_id, now)
                /\ ret' = IF found
                          THEN [Response("toggle_like_review", "ok", user_id, rating_id, 1) EXCEPT !.liked = ~exists, !.count = <<RatingRow(user_ratings', rating_id).likes_count>>, !.before = before]
                          ELSE [Response("toggle_like_review", "TypeError", user_id, rating_id, 1) EXCEPT !.before = before]
        /\ UNCHANGED <<content, exceptRating, now, procs>>

\* ---------------------------------------------------------- list_comments
\* SELECT COUNT(*) FROM list_comments WHERE list_id = %s
CountComments(lc, list_id) == Cardinality({r \in lc : r.list_id = list_id})

\* UPDATE user_lists SET comments_count = (SELECT COUNT(*) ...), updated_at = CURRENT_TIMESTAMP WHERE id = %s
UpdateCommentsCount_Delta(ul, lc, list_id, ts) == {IF r.id = list_id THEN [r EXCEPT !.comments_count = <<Coalesce(r.comments_count, 0) + 1>>, !.updated_at = ts] ELSE r : r \in ul}

UpdateCommentsCount(ul, lc, list_id, ts) == {IF r.id = list_id THEN [r EXCEPT !.comments_count = <<CountComments(lc, list_id)>>, !.updated_at = ts] ELSE r : r \in ul}

\* the ValueError add_list_comment raises for this text, or Null
CommentError(comment_text) == IF comment_text = <<>> \/ Strip(comment_text) = <<>> THEN "Comment cannot be empty" ELSE Null

\* add_list_comment run alone.  The serial is advanced by every INSERT, also by one the
\* foreign key then refuses.
add_list_comment(user_id, list_id, comment_text) ==
    LET found == list_id \in ListIds(user_lists)
        id == list_comments_seq + 1
        lc1 == list_comments \cup {[id |-> id, list_id |-> list_id, user_id |-> user_id, comment_text |-> Strip(comment_text), created_at |-> now]}
    IN  /\ IF CommentError(comment_text) # Null
           THEN /\ ret' = [Response("add_list_comment", "ValueError", user_id, list_id, 0) EXCEPT !.name = comment_text, !.error = CommentError(comment_text)]
                /\ UNCHANGED <<list_comments, list_comments_seq, user_lists>>
           ELSE IF ~found /\ ForeignKeysDeclared
           THEN /\ ret' = [Response("add_list_comment", "IntegrityError", user_id, list_id, 0) EXCEPT !.name = comment_text]
                /\ list_comments_seq' = id
                /\ UNCHANGED <<list_comments, user_lists>>
           ELSE /\ list_comments' = lc1
                /\ list_comments_seq' = id
                /\ user_lists' = UpdateCommentsCount(user_lists, lc1, list_id, now)
                /\ ret' = IF found
                          THEN [Response("add_list_comment", "ok", user_id, list_id, 1) EXCEPT !.name = comment_text, !.count = ListRow(user_lists', list_id).comments_count, !.id = id]
                          ELSE [Response("add_list_comment", "TypeError", user_id, list_id, 1) EXCEPT !.name = comment_text]
        /\ UNCHANGED <<list_likes, exceptList, now, procs>>

\* the permission check of delete_list_comment
CanDelete_AuthorOnly(actor_user_id, comment_user_id, list_owner_id) == actor_user_id = comment_user_id

CanDelete(actor_user_id, comment_user_id, list_owner_id) == ~(actor_user_id # comment_user_id /\ actor_user_id # list_owner_id)

\* delete_list_comment run alone
delete_list_comment_DeleteFirst(actor_user_id, comment_id) ==
    LET rows == {r \in list_comments : r.id = comment_id}
        row == CHOOSE r \in rows : TRUE
        lc1 == list_comments \ rows
    IN  /\ IF rows = {}
           THEN /\ ret' = [Response("delete_list_comment", "ValueError", actor_user_id, comment_id, 0) EXCEPT !.error = "Comment not found"]
                /\ UNCHANGED <<list_comments, user_lists>>
           ELSE IF row.list_id \notin ListIds(user_lists)
           THEN /\ ret' = [Response("delete_list_comment", "ValueError", actor_user_id, comment_id, 0) EXCEPT !.error = "List not found"]
                /\ list_comments' = lc1
                /\ UNCHANGED user_lists
           ELSE IF ~CanDelete(actor_user_id, row.user_id, ListRow(user_lists, row.list_id).user_id)
           THEN /\ ret' = [Response("delete_list_comment", "PermissionError", actor_user_id, comment_id, 0) EXCEPT !.error = "Not allowed to delete this comment"]
                /\ list_comments' = lc1
                /\ UNCHANGED user_lists
           ELSE /\ list_comments' = lc1
                /\ user_lists' = UpdateCommentsCount(user_lists, lc1, row.list_id, now)
                /\ ret' = [Response("delete_list_comment", "ok", actor_user_id, comment_id, 1) EXCEPT !.arg = row.list_id, !.count = ListRow(user_lists', row.list_id).comments_count]
        /\ UNCHANGED <<list_likes, list_comments_seq, exceptList, now, procs>>

delete_list_comment(actor_user_id, comment_id) ==
    LET rows == {r \in list_comments : r.id = comment_id}
        row == CHOOSE r \in rows : TRUE
        lc1 == list_comments \ rows
    IN  /\ IF rows = {}
           THEN /\ ret' = [Response("delete_list_comment", "ValueError", actor_user_id, comment_id, 0) EXCEPT !.error = "Comment not found"]
                /\ UNCHANGED <<list_comments, user_lists>>
           ELSE IF row.list_id \notin ListIds(user_lists)
           THEN /\ ret' = [Response("delete_list_comment", "ValueError", actor_user_id, comment_id, 0) EXCEPT !.error = "List not found"]
                /\ UNCHANGED <<list_comments, user_lists>>
           ELSE IF ~CanDelete(actor_user_id, row.user_id, ListRow(user_lists, row.list_id).user_id)
           THEN /\ ret' = [Response("delete_list_comment", "PermissionError", actor_user_id, comment_id, 0) EXCEPT !.error = "Not allowed to delete this comment"]
                /\ UNCHANGED <<list_comments, user_lists>>
           ELSE /\ list_comments' = lc1
                /\ user_lists' = UpdateCommentsCount(user_lists, lc1, row.list_id, now)
                /\ ret' = [Response("delete_list_comment", "ok", actor_user_id, comment_id, 1) EXCEPT !.arg = row.list_id, !.count = ListRow(user_lists', row.list_id).comments_count]
        /\ UNCHANGED <<list_likes, list_comments_seq, exceptList, now, procs>>

\* delete_list_comment_view: the status of the response for what delete_list_comment raised
\* views.toggle_like: the status of the response, by what toggle_like_list raised
ToggleLikeHttp(status) == IF status = "ok" THEN 200 ELSE 500

\* views.add_list_comment_view: the status of the response, by what add_list_comment raised
AddListCommentHttp(status) ==
    IF status = "ok" THEN 200
    ELSE IF status = "ValueError" THEN 400
    ELSE 500

DeleteCommentHttp(status) ==
    IF status = "ok" THEN 200
    ELSE IF status = "PermissionError" THEN 403
    ELSE IF status = "ValueError" THEN 404
    ELSE 500

\* ------------------------------------------------------------- list_items
\* INSERT INTO list_items (list_id, content_id) ... ON CONFLICT (list_id, content_id) DO NOTHING
InsertListItem_NoConflictClause(li, list_id, content_id, ts) == li \cup {[id |-> NextId(li), list_id |-> list_id, content_id |-> content_id, added_at |-> ts]}

InsertListItem(li, list_id, content_id, ts) ==
    IF \E r \in li : r.list_id = list_id /\ r.content_id = content_id
    THEN li
    ELSE li \cup {[id |-> NextId(li), list_id |-> list_id, content_id |-> content_id, added_at |-> ts]}

\* SELECT COUNT(*) FROM list_items WHERE content_id = %s
CountListItems(li, content_id) == Cardinality({r \in li : r.content_id = content_id})

\* UPDATE content SET list_count = (SELECT COUNT(*) ...) WHERE id = %s
UpdateListCount(c, li, content_id) == {IF r.id = content_id THEN [r EXCEPT !.list_count = CountListItems(li, content_id)] ELSE r : r \in c}

\* add_to_list run alone: what it raises and the content and list_items tables it may
\* leave.  On a list id with no row the INSERT raises IntegrityError, after the content
\* row was written and committed.
add_to_list(list_id, tmdb_id, media_type, title) ==
    {IF list_id \notin ListIds(user_lists) /\ ForeignKeysDeclared
     THEN [status |-> "IntegrityError", content |-> g.content, list_items |-> list_items]
     ELSE [status |-> "ok",
           content |-> UpdateListCount(g.content, InsertListItem(list_items, list_id, g.id, now), g.id),
           list_items |-> InsertListItem(list_items, list_id, g.id, now)] : g \in get_or_create_content(content, tmdb_id, media_type, title)}

\* add_to_list_view, for a logged-in user.  A missing field is 0 or Null; any exception
\* is answered with 500.
add_to_list_view(user_id, list_id, tmdb_id, media_type, title) ==
    LET response(status, rowcount) == [Response("add_to_list_view", status, user_id, list_id, rowcount) EXCEPT !.media_type = media_type, !.arg = tmdb_id]
    IN  /\ IF list_id = 0 \/ tmdb_id = 0 \/ media_type = Null \/ title = Null
           THEN /\ ret' = [response("400", 0) EXCEPT !.error = "Missing required fields"]
                /\ UNCHANGED <<content, list_items>>
           ELSE IF ~verify_user_owns_list(user_lists, user_id, list_id)
           THEN /\ ret' = [response("403", 0) EXCEPT !.error = "Unauthorized list access"]
                /\ UNCHANGED <<content, list_items>>
           ELSE \E a \in add_to_list(list_id, tmdb_id, media_type, title) :
                  /\ content' = a.content
                  /\ list_items' = a.list_items
                  /\ ret' = IF a.status = "ok"
                            THEN response("200", Cardinality(a.list_items) - Cardinality(list_items))
                            ELSE [response("500", 0) EXCEPT !.error = a.status]
        /\ UNCHANGED <<exceptItem, now, procs>>

\* FROM list_items li JOIN content c ON li.content_id = c.id WHERE li.list_id = %s
ListItemsJoin(list_id) == {q \in list_items \X content : q[1].list_id = list_id /\ q[1].content_id = q[2].id}

\* SUM(CASE WHEN c.media_type = %s THEN 1 ELSE 0 END): NULL over no rows
SumCaseMediaType(rows, media_type) == IF rows = {} THEN NullNum ELSE <<Cardinality({q \in rows : q[2].media_type = media_type})>>

\* row[i] or 0
OrZero(x) == IF x = NullNum \/ x = <<0>> THEN 0 ELSE x[1]

\* get_list_item_counts: total in count, movies in arg, shows in id
get_list_item_counts(list_id) ==
    /\ ret' = [Response("get_list_item_counts", "ok", 0, list_id, 0) EXCEPT
                   !.count = <<OrZero(<<Cardinality(ListItemsJoin(list_id))>>)>>,
                   !.arg = OrZero(SumCaseMediaType(ListItemsJoin(list_id), "movie")),
                   !.id = OrZero(SumCaseMediaType(ListItemsJoin(list_id), "tv"))]
    /\ UNCHANGED <<tables, schemaT, now, procs>>

\* ----------------------------------------------------------- user_follows
\* followers_count + 1 and followers_count - 1: NULL stays NULL
PlusNum(x, d) == IF x = NullNum THEN NullNum ELSE <<x[1] + d>>

\* toggle_follow (the view), for a logged-in user
toggle_follow(user_id, target_username) ==
    LET targets == {u \in DOMAIN users : Lower(users[u].username) = Lower(target_username)}
        target_id == CHOOSE u \in targets : TRUE
        rows == {r \in user_follows : r.follower_id = user_id /\ r.followee_id = target_id}
    IN  /\ IF target_username = <<>>
           THEN /\ ret' = [Response("toggle_follow", "400", user_id, 0, 0) EXCEPT !.name = target_username, !.error = "Missing username"]
                /\ UNCHANGED followT
           ELSE IF targets = {}
           THEN /\ ret' = [Response("toggle_follow", "404", user_id, 0, 0) EXCEPT !.name = target_username, !.error = "User not found"]
                /\ UNCHANGED followT
           ELSE IF user_id = target_id
           THEN /\ ret' = [Response("toggle_follow", "400", user_id, 0, 0) EXCEPT !.name = target_username, !.error = "Cannot follow yourself"]
                /\ UNCHANGED followT
           ELSE IF rows # {}
           THEN /\ \E row \in rows : user_follows' = user_follows \ {row}
                /\ users' = [users EXCEPT ![target_id].followers_count = PlusNum(@, -1), ![user_id].following_count = PlusNum(@, -1)]
                /\ ret' = [Response("toggle_follow", "ok", user_id, 0, 1) EXCEPT !.name = target_username, !.liked = FALSE, !.count = users'[target_id].followers_count]
                /\ UNCHANGED user_follows_seq
           ELSE /\ user_follows' = user_follows \cup {[id |-> user_follows_seq + 1, follower_id |-> user_id, followee_id |-> target_id]}
                /\ user_follows_seq' = user_follows_seq + 1
                /\ users' = [users EXCEPT ![target_id].followers_count = PlusNum(@, 1), ![user_id].following_count = PlusNum(@, 1)]
                /\ ret' = [Response("toggle_follow", "ok", user_id, 0, 1) EXCEPT !.name = target_username, !.liked = TRUE, !.count = users'[target_id].followers_count]
        /\ UNCHANGED <<exceptFollow, now, procs>>

\* SELECT COUNT(*) FROM user_follows WHERE followee_id = %s
CountFollowers(uf, user_id) == Cardinality({r \in uf : r.followee_id = user_id})

\* SELECT COUNT(*) FROM user_follows WHERE follower_id = %s
CountFollowing(uf, user_id) == Cardinality({r \in uf : r.follower_id = user_id})

\* profile (the view): the followers and following counts of its profile_stats, in count
\* and arg; the stored columns when neither is NULL, the live counts otherwise
profile(username) ==
    LET targets == {u \in DOMAIN users : Lower(users[u].username) = Lower(username)}
        id == CHOOSE u \in targets : TRUE
        stored == users[id].followers_count # NullNum /\ users[id].following_count # NullNum
    IN  /\ ret' = IF targets = {}
                  THEN [Response("profile", "404", 0, 0, 0) EXCEPT !.name = username]
                  ELSE [Response("profile", "ok", 0, id, 0) EXCEPT !.name = username,
                            !.count = IF stored THEN users[id].followers_count ELSE <<CountFollowers(user_follows, id)>>,
                            !.arg = IF stored THEN users[id].following_count[1] ELSE CountFollowing(user_follows, id)]
        /\ UNCHANGED <<tables, schemaT, now, procs>>

\* ------------------------------------------- toggle_follow, statement by statement
\* the request arrives: the username check, SELECT id FROM users and the self check
tf_call(p, user_id, target_username) ==
    LET targets == {u \in DOMAIN users : Lower(users[u].username) = Lower(target_username)}
        call == [IdleProc EXCEPT !.op = "toggle_follow", !.user_id = user_id, !.name = target_username]
    IN  /\ procs[p].pc = "idle"
        /\ IF target_username = <<>> \/ targets = {}
           THEN procs' = [procs EXCEPT ![p] = [call EXCEPT !.pc = "done", !.status = IF target_username = <<>> THEN "400" ELSE "404"]]
           ELSE \E t \in targets :
                  procs' = [procs EXCEPT ![p] = IF t = user_id
                                                 THEN [call EXCEPT !.pc = "done", !.status = "400"]
                                                 ELSE [call EXCEPT !.pc = "tf_select_row", !.status = "running", !.target_id = t]]
        /\ UNCHANGED <<tables, schemaT, now, ret>>

\* SELECT id FROM user_follows WHERE follower_id = %s AND followee_id = %s, and fetchone()
tf_select_row(p) ==
    /\ procs[p].pc = "tf_select_row"
    /\ LET rows == {r \in user_follows : r.follower_id = procs[p].user_id /\ r.followee_id = procs[p].target_id}
       IN  IF rows = {}
           THEN procs' = [procs EXCEPT ![p].pc = "tf_insert"]
           ELSE \E r \in rows : procs' = [procs EXCEPT ![p].pc = "tf_delete", ![p].row_id = r.id]
    /\ UNCHANGED <<tables, schemaT, now, ret>>

\* DELETE FROM user_follows WHERE id = %s: of a row already gone it deletes nothing
tf_delete(p) ==
    /\ procs[p].pc = "tf_delete"
    /\ user_follows' = {r \in user_follows : r.id # procs[p].row_id}
    /\ procs' = [procs EXCEPT ![p].pc = "tf_update_followers"]
    /\ UNCHANGED <<users, user_follows_seq, exceptFollow, now, ret>>

\* INSERT INTO user_follows (follower_id, followee_id): a unique key makes the second of
\* two racing INSERTs raise IntegrityError, which the view answers with 500
tf_insert(p) ==
    /\ procs[p].pc = "tf_insert"
    /\ user_follows_seq' = user_follows_seq + 1
    /\ IF follow_key_unique /\ \E r \in user_follows : r.follower_id = procs[p].user_id /\ r.followee_id = procs[p].target_id
       THEN /\ procs' = [procs EXCEPT ![p].pc = "done", ![p].status = "500"]
            /\ UNCHANGED user_follows
       ELSE /\ user_follows' = user_follows \cup {[id |-> user_follows_seq + 1, follower_id |-> procs[p].user_id, followee_id |-> procs[p].target_id]}
            /\ procs' = [procs EXCEPT ![p].pc = "tf_update_followers"]
    /\ UNCHANGED <<users, exceptFollow, now, ret>>

\* +1 after the INSERT, -1 after the DELETE
tf_delta(p) == IF procs[p].row_id = 0 THEN 1 ELSE -1

\* UPDATE users SET followers_count = followers_count +/- 1 WHERE id = target_id
tf_update_followers(p) ==
    /\ procs[p].pc = "tf_update_followers"
    /\ users' = [users EXCEPT ![procs[p].target_id].followers_count = PlusNum(@, tf_delta(p))]
    /\ procs' = [procs EXCEPT ![p].pc = "tf_update_following"]
    /\ UNCHANGED <<user_follows, user_follows_seq, exceptFollow, now, ret>>

\* UPDATE users SET following_count = following_count +/- 1 WHERE id = user_id
tf_update_following(p) ==
    /\ procs[p].pc = "tf_update_following"
    /\ users' = [users EXCEPT ![procs[p].user_id].following_count = PlusNum(@, tf_delta(p))]
    /\ procs' = [procs EXCEPT ![p].pc = "tf_select_count"]
    /\ UNCHANGED <<user_follows, user_follows_seq, exceptFollow, now, ret>>

\* SELECT followers_count FROM users WHERE id = target_id, and the response
tf_select_count(p) ==
    /\ procs[p].pc = "tf_select_count"
    /\ procs' = [procs EXCEPT ![p].pc = "done", ![p].status = "ok", ![p].count = users[procs[p].target_id].followers_count]
    /\ UNCHANGED <<tables, schemaT, now, ret>>

\* ------------------------------------------ create_user_list, statement by statement
\* the request arrives: the checks of the name itself
cul_call(p, user_id, name) ==
    /\ procs[p].pc = "idle"
    /\ procs' = [procs EXCEPT ![p] = IF name = <<>> \/ Strip(name) = <<>> \/ StrLen(Strip(name)) > MaxNameLen
                                     THEN [IdleProc EXCEPT !.pc = "done", !.op = "create_user_list", !.user_id = user_id, !.name = name, !.status = "ValueError"]
                                     ELSE [IdleProc EXCEPT !.pc = "cul_select", !.op = "create_user_list", !.user_id = user_id, !.name = Strip(name), !.status = "running"]]
    /\ UNCHANGED <<tables, schemaT, now, ret>>

\* user_has_list_name: SELECT 1 FROM user_lists WHERE user_id = %s AND LOWER(name) = LOWER(%s)
cul_select(p) ==
    /\ procs[p].pc = "cul_select"
    /\ procs' = IF user_has_list_name(user_lists, procs[p].user_id, procs[p].name)
                THEN [procs EXCEPT ![p].pc = "done", ![p].status = "ValueError"]
                ELSE [procs EXCEPT ![p].pc = "cul_insert"]
    /\ UNCHANGED <<tables, schemaT, now, ret>>

\* INSERT INTO user_lists (user_id, name, description, is_public) ... RETURNING id, ...
cul_insert(p) ==
    /\ procs[p].pc = "cul_insert"
    /\ IF list_name_unique /\ user_has_list_name(user_lists, procs[p].user_id, procs[p].name)
       THEN /\ procs' = [procs EXCEPT ![p].pc = "done", ![p].status = "IntegrityError"]
            /\ UNCHANGED user_lists
       ELSE /\ user_lists' = InsertList(user_lists, procs[p].user_id, procs[p].name, TRUE, now)
            /\ procs' = [procs EXCEPT ![p].pc = "done", ![p].status = "ok", ![p].row_id = NextId(user_lists)]
    /\ UNCHANGED <<list_likes, list_comments, list_comments_seq, exceptList, now, ret>>

\* --------------------------- toggle_like_list and toggle_like_review, statement by statement
\* the request arrives
tll_call(p, user_id, list_id) ==
    /\ procs[p].pc = "idle"
    /\ procs' = [procs EXCEPT ![p] = [IdleProc EXCEPT !.pc = "tll_select", !.op = "toggle_like_list", !.user_id = user_id, !.target_id = list_id, !.status = "running"]]
    /\ UNCHANGED <<tables, schemaT, now, ret>>

\* SELECT 1 FROM list_likes WHERE user_id = %s AND list_id = %s, and exists = fetchone() is not None
tll_select(p) ==
    /\ procs[p].pc = "tll_select"
    /\ procs' = [procs EXCEPT ![p].exists = LikeExists(list_likes, procs[p].user_id, procs[p].target_id),
                              ![p].pc = IF LikeExists(list_likes, procs[p].user_id, procs[p].target_id) THEN "tll_delete" ELSE "tll_insert"]
    /\ UNCHANGED <<tables, schemaT, now, ret>>

\* DELETE FROM list_likes WHERE user_id = %s AND list_id = %s
tll_delete(p) ==
    /\ procs[p].pc = "tll_delete"
    /\ list_likes' = DeleteLike(list_likes, procs[p].user_id, procs[p].target_id)
    /\ procs' = [procs EXCEPT ![p].pc = "tll_update"]
    /\ UNCHANGED <<user_lists, list_comments, list_comments_seq, exceptList, now, ret>>

\* INSERT INTO list_likes (user_id, list_id) VALUES (%s, %s): refused with IntegrityError
\* on a unique key that holds the pair, or on a list id that has no row
tll_insert(p) ==
    /\ procs[p].pc = "tll_insert"
    /\ IF \/ like_key_unique /\ LikeExists(list_likes, procs[p].user_id, procs[p].target_id)
          \/ ForeignKeysDeclared /\ procs[p].target_id \notin ListIds(user_lists)
       THEN /\ procs' = [procs EXCEPT ![p].pc = "done", ![p].status = "IntegrityError"]
            /\ UNCHANGED list_likes
       ELSE /\ list_likes' = InsertLike(list_likes, procs[p].user_id, procs[p].target_id)
            /\ procs' = [procs EXCEPT ![p].pc = "tll_update"]
    /\ UNCHANGED <<user_lists, list_comments, list_comments_seq, exceptList, now, ret>>

\* UPDATE user_lists SET likes_count = (SELECT COUNT(*) ...) ... RETURNING likes_count, and fetchone()[0]
tll_update(p) ==
    /\ procs[p].pc = "tll_update"
    /\ user_lists' = UpdateLikesCount(user_lists, list_likes, procs[p].target_id, now)
    /\ procs' = [procs EXCEPT ![p].pc = "done",
                              ![p].status = IF procs[p].target_id \in ListIds(user_lists) THEN "ok" ELSE "TypeError",
                              ![p].count = IF procs[p].target_id \in ListIds(user_lists) THEN ListRow(user_lists', procs[p].target_id).likes_count ELSE NullNum]
    /\ UNCHANGED <<list_likes, list_comments, list_comments_seq, exceptList, now, ret>>

tlr_call(p, user_id, rating_id) ==
    /\ procs[p].pc = "idle"
    /\ procs' = [procs EXCEPT ![p] = [IdleProc EXCEPT !.pc = "tlr_select", !.op = "toggle_like_review", !.user_id = user_id, !.target_id = rating_id, !.status = "running"]]
    /\ UNCHANGED <<tables, schemaT, now, ret>>

\* SELECT 1 FROM user_rating_likes WHERE user_id = %s AND rating_id = %s
tlr_select(p) ==
    /\ procs[p].pc = "tlr_select"
    /\ procs' = [procs EXCEPT ![p].exists = LikeExists(user_rating_likes, procs[p].user_id, procs[p].target_id),
                              ![p].pc = IF LikeExists(user_rating_likes, procs[p].user_id, procs[p].target_id) THEN "tlr_delete" ELSE "tlr_insert"]
    /\ UNCHANGED <<tables, schemaT, now, ret>>

\* DELETE FROM user_rating_likes WHERE user_id = %s AND rating_id = %s
tlr_delete(p) ==
    /\ procs[p].pc = "tlr_delete"
    /\ user_rating_likes' = DeleteLike(user_rating_likes, procs[p].user_id, procs[p].target_id)
    /\ procs' = [procs EXCEPT ![p].pc = "tlr_update"]
    /\ UNCHANGED <<content, user_ratings, exceptRating, now, ret>>

\* INSERT INTO user_rating_likes (user_id, rating_id) VALUES (%s, %s)
tlr_insert(p) ==
    /\ procs[p].pc = "tlr_insert"
    /\ IF \/ like_key_unique /\ LikeExists(user_rating_likes, procs[p].user_id, procs[p].target_id)
          \/ ForeignKeysDeclared /\ procs[p].target_id \notin RatingIds(user_ratings)
       THEN /\ procs' = [procs EXCEPT ![p].pc = "done", ![p].status = "IntegrityError"]
            /\ UNCHANGED user_rating_likes
       ELSE /\ user_rating_likes' = InsertLike(user_rating_likes, procs[p].user_id, procs[p].target_id)
            /\ procs' = [procs EXCEPT ![p].pc = "tlr_update"]
    /\ UNCHANGED <<content, user_ratings, exceptRating, now, ret>>

\* UPDATE user_ratings SET likes_count = (SELECT COUNT(*) ...) WHERE id = %s RETURNING ..., and fetchone()[0]
tlr_update(p) ==
    /\ procs[p].pc = "tlr_update"
    /\ user_ratings' = UpdateRatingLikesCount(user_ratings, user_rating_likes, procs[p].target_id, now)
    /\ procs' = [procs EXCEPT ![p].pc = "done",
                              ![p].status = IF procs[p].target_id \in RatingIds(user_ratings) THEN "ok" ELSE "TypeError",
                              ![p].count = IF procs[p].target_id \in RatingIds(user_ratings) THEN <<RatingRow(user_ratings', procs[p].target_id).likes_count>> ELSE NullNum]
    /\ UNCHANGED <<content, user_rating_likes, exceptRating, now, ret>>

\* ------------------------------------ the counter UPDATEs, subquery and write apart
\* Each statement is its own transaction (autocommit) and reads the rows committed when it
\* starts: the COUNT(*) of UPDATE ... SET c = (SELECT COUNT(*) ...) is taken from that
\* snapshot, and the row is written after whatever other statements committed meanwhile.
WriteWatchedCount(c, content_id, n) == {IF r.id = content_id THEN [r EXCEPT !.watched_count = n] ELSE r : r \in c}

WriteListCount(c, content_id, n) == {IF r.id = content_id THEN [r EXCEPT !.list_count = n] ELSE r : r \in c}

WriteLikesCount(ul, list_id, n, ts) == {IF r.id = list_id THEN [r EXCEPT !.likes_count = n, !.updated_at = ts] ELSE r : r \in ul}

WriteCommentsCount(ul, list_id, n, ts) == {IF r.id = list_id THEN [r EXCEPT !.comments_count = n, !.updated_at = ts] ELSE r : r \in ul}

\* mark_as_watched: (SELECT COUNT(*) FROM user_watched WHERE content_id = %s)
mw_count(p) ==
    /\ procs[p].pc = "update_watched_count"
    /\ procs' = [procs EXCEPT ![p].pc = "write_watched_count", ![p].count = <<CountWatched(user_watched, procs[p].content_id)>>]
    /\ UNCHANGED <<tables, schemaT, now, ret>>

\* mark_as_watched: UPDATE content SET watched_count = ... WHERE id = %s
mw_write(p) ==
    /\ procs[p].pc = "write_watched_count"
    /\ content' = WriteWatchedCount(content, procs[p].content_id, procs[p].count[1])
    /\ procs' = [procs EXCEPT ![p].pc = "done", ![p].status = "ok"]
    /\ UNCHANGED <<user_watched, exceptWatch, now, ret>>

\* toggle_like_list: (SELECT COUNT(*) FROM list_likes WHERE list_id = %s)
tll_count(p) ==
    /\ procs[p].pc = "tll_update"
    /\ procs' = [procs EXCEPT ![p].pc = "tll_write", ![p].count = <<CountLikes(list_likes, procs[p].target_id)>>]
    /\ UNCHANGED <<tables, schemaT, now, ret>>

\* toggle_like_list: UPDATE user_lists SET likes_count = ... RETURNING likes_count, and fetchone()[0]
tll_write(p) ==
    /\ procs[p].pc = "tll_write"
    /\ user_lists' = WriteLikesCount(user_lists, procs[p].target_id, procs[p].count, now)
    /\ procs' = [procs EXCEPT ![p].pc = "done", ![p].status = IF procs[p].target_id \in ListIds(user_lists) THEN "ok" ELSE "TypeError"]
    /\ UNCHANGED <<list_likes, list_comments, list_comments_seq, exceptList, now, ret>>

\* add_list_comment arrives: the check of the text
alc_call(p, user_id, list_id, comment_text) ==
    /\ procs[p].pc = "idle"
    /\ procs' = [procs EXCEPT ![p] = IF CommentError(comment_text) # Null
                                     THEN [IdleProc EXCEPT !.pc = "done", !.op = "add_list_comment", !.user_id = user_id, !.target_id = list_id, !.name = comment_text, !.status = "ValueError"]
                                     ELSE [IdleProc EXCEPT !.pc = "alc_insert", !.op = "add_list_comment", !.user_id = user_id, !.target_id = list_id, !.name = Strip(comment_text), !.status = "running"]]
    /\ UNCHANGED <<tables, schemaT, now, ret>>

\* INSERT INTO list_comments (list_id, user_id, comment_text) ... RETURNING id, ...
alc_insert(p) ==
    /\ procs[p].pc = "alc_insert"
    /\ list_comments_seq' = list_comments_seq + 1
    /\ IF ForeignKeysDeclared /\ procs[p].target_id \notin ListIds(user_lists)
       THEN /\ procs' = [procs EXCEPT ![p].pc = "done", ![p].status = "IntegrityError"]
            /\ UNCHANGED list_comments
       ELSE /\ list_comments' = list_comments \cup {[id |-> list_comments_seq + 1, list_id |-> procs[p].target_id, user_id |-> procs[p].user_id, comment_text |-> procs[p].name, created_at |-> now]}
            /\ procs' = [procs EXCEPT ![p].pc = "alc_count", ![p].row_id = list_comments_seq + 1]
    /\ UNCHANGED <<user_lists, list_likes, exceptList, now, ret>>

\* add_list_comment: (SELECT COUNT(*) FROM list_comments WHERE list_id = %s)
alc_count(p) ==
    /\ procs[p].pc = "alc_count"
    /\ procs' = [procs EXCEPT ![p].pc = "alc_write", ![p].count = <<CountComments(list_comments, procs[p].target_id)>>]
    /\ UNCHANGED <<tables, schemaT, now, ret>>

\* add_list_comment: UPDATE user_lists SET comments_count = ... RETURNING comments_count
alc_write(p) ==
    /\ procs[p].pc = "alc_write"
    /\ user_lists' = WriteCommentsCount(user_lists, procs[p].target_id, procs[p].count, now)
    /\ procs' = [procs EXCEPT ![p].pc = "done", ![p].status = IF procs[p].target_id \in ListIds(user_lists) THEN "ok" ELSE "TypeError"]
    /\ UNCHANGED <<list_likes, list_comments, list_comments_seq, exceptList, now, ret>>

\* delete_list_comment arrives
dlc_call(p, actor_user_id, comment_id) ==
    /\ procs[p].pc = "idle"
    /\ procs' = [procs EXCEPT ![p] = [IdleProc EXCEPT !.pc = "dlc_select_comment", !.op = "delete_list_comment", !.user_id = actor_user_id, !.row_id = comment_id, !.status = "running"]]
    /\ UNCHANGED <<tables, schemaT, now, ret>>

\* SELECT lc.list_id, lc.user_id FROM list_comments lc WHERE lc.id = %s
dlc_select_comment(p) ==
    /\ procs[p].pc = "dlc_select_comment"
    /\ LET rows == {r \in list_comments : r.id = procs[p].row_id}
       IN  IF rows = {}
           THEN procs' = [procs EXCEPT ![p].pc = "done", ![p].status = "ValueError"]
           ELSE \E r \in rows : procs' = [procs EXCEPT ![p].pc = "dlc_select_list", ![p].target_id = r.list_id, ![p].comment_user_id = r.user_id]
    /\ UNCHANGED <<tables, schemaT, now, ret>>

\* SELECT user_id FROM user_lists WHERE id = %s, and the permission check
dlc_select_list(p) ==
    /\ procs[p].pc = "dlc_select_list"
    /\ procs' = IF procs[p].target_id \notin ListIds(user_lists)
                THEN [procs EXCEPT ![p].pc = "done", ![p].status = "ValueError"]
                ELSE IF ~CanDelete(procs[p].user_id, procs[p].comment_user_id, ListRow(user_lists, procs[p].target_id).user_id)
                THEN [procs EXCEPT ![p].pc = "done", ![p].status = "PermissionError"]
                ELSE [procs EXCEPT ![p].pc = "dlc_delete"]
    /\ UNCHANGED <<tables, schemaT, now, ret>>

\* DELETE FROM list_comments WHERE id = %s
dlc_delete(p) ==
    /\ procs[p].pc = "dlc_delete"
    /\ list_comments' = {r \in list_comments : r.id # procs[p].row_id}
    /\ procs' = [procs EXCEPT ![p].pc = "dlc_count"]
    /\ UNCHANGED <<user_lists, list_likes, list_comments_seq, exceptList, now, ret>>

\* delete_list_comment: (SELECT COUNT(*) FROM list_comments WHERE list_id = %s)
dlc_count(p) ==
    /\ procs[p].pc = "dlc_count"
    /\ procs' = [procs EXCEPT ![p].pc = "dlc_write", ![p].count = <<CountComments(list_comments, procs[p].target_id)>>]
    /\ UNCHANGED <<tables, schemaT, now, ret>>

\* delete_list_comment: UPDATE user_lists SET comments_count = ... RETURNING comments_count
dlc_write(p) ==
    /\ procs[p].pc = "dlc_write"
    /\ user_lists' = WriteCommentsCount(user_lists, procs[p].target_id, procs[p].count, now)
    /\ procs' = [procs EXCEPT ![p].pc = "done", ![p].status = IF procs[p].target_id \in ListIds(user_lists) THEN "ok" ELSE "TypeError"]
    /\ UNCHANGED <<list_likes, list_comments, list_comments_seq, exceptList, now, ret>>

\* add_to_list arrives; get_or_create_content is its first call
atl_call(p, list_id, tmdb_id, media_type, title) ==
    /\ procs[p].pc = "idle"
    /\ procs' = [procs EXCEPT ![p] = [IdleProc EXCEPT !.pc = "goc_select", !.op = "add_to_list", !.target_id = list_id, !.tmdb_id = tmdb_id, !.media_type = media_type, !.title = title, !.status = "running"]]
    /\ UNCHANGED <<tables, schemaT, now, ret>>

\* INSERT INTO list_items (list_id, content_id) ... ON CONFLICT (list_id, content_id) DO NOTHING
atl_insert(p) ==
    /\ procs[p].pc = "insert_list_item"
    /\ IF ForeignKeysDeclared /\ procs[p].target_id \notin ListIds(user_lists)
       THEN /\ procs' = [procs EXCEPT ![p].pc = "done", ![p].status = "IntegrityError"]
            /\ UNCHANGED list_items
       ELSE /\ list_items' = InsertListItem(list_items, procs[p].target_id, procs[p].content_id, now)
            /\ procs' = [procs EXCEPT ![p].pc = "update_list_count"]
    /\ UNCHANGED <<content, exceptItem, now, ret>>

\* add_to_list: (SELECT COUNT(*) FROM list_items WHERE content_id = %s)
atl_count(p) ==
    /\ procs[p].pc = "update_list_count"
    /\ procs' = [procs EXCEPT ![p].pc = "write_list_count", ![p].count = <<CountListItems(list_items, procs[p].content_id)>>]
    /\ UNCHANGED <<tables, schemaT, now, ret>>

\* add_to_list: UPDATE content SET list_count = ... WHERE id = %s
atl_write(p) ==
    /\ procs[p].pc = "write_list_count"
    /\ content' = WriteListCount(content, procs[p].content_id, procs[p].count[1])
    /\ procs' = [procs EXCEPT ![p].pc = "done", ![p].status = "ok"]
    /\ UNCHANGED <<list_items, exceptItem, now, ret>>

\* ----------------------------------------------------------- detail pages
\* get_content_stats: watched_count of the content, 0 when it has no row
get_content_stats(tmdb_id, media_type) ==
    IF SelectContentIds(content, tmdb_id, media_type) = {} THEN 0
    ELSE (CHOOSE c \in content : c.tmdb_id = tmdb_id /\ c.media_type = media_type).watched_count

\* get_content_reviews: the ratings of the content that carry a review text
get_content_reviews(tmdb_id, media_type) ==
    {r \in user_ratings : r.review_text # Null /\ r.content_id \in SelectContentIds(content, tmdb_id, media_type)}

\* movie_detail and tv_detail.  user_id is 0 without a session.  TMDBService._make_request
\* returns None on a failed request: search says whether the search request returned an
\* item, details whether the request for its details returned data.  has_watched and
\* reviews are assigned only under 'if movie_details:', and render() reads them.
\* In the response, arg counts the requests that returned data.
DetailResponse(op, media_type, user_id, tmdb_id, search, details) ==
    IF ~search
    THEN [Response(op, "302", user_id, tmdb_id, 0) EXCEPT !.media_type = media_type, !.error = "not found"]
    ELSE IF details
    THEN [Response(op, "200", user_id, tmdb_id, Cardinality(get_content_reviews(tmdb_id, media_type))) EXCEPT
              !.media_type = media_type, !.arg = 2,
              !.liked = (user_id # 0 /\ has_user_watched(content, user_watched, user_id, tmdb_id, media_type)),
              !.count = <<get_content_stats(tmdb_id, media_type)>>]
    ELSE [Response(op, "500", user_id, tmdb_id, 0) EXCEPT !.media_type = media_type, !.arg = 1, !.error = "UnboundLocalError"]

movie_detail(user_id, tmdb_id, search, details) ==
    /\ ret' = DetailResponse("movie_detail", "movie", user_id, tmdb_id, search, details)
    /\ UNCHANGED <<tables, schemaT, now, procs>>

tv_detail(user_id, tmdb_id, search, details) ==
    /\ ret' = DetailResponse("tv_detail", "tv", user_id, tmdb_id, search, details)
    /\ UNCHANGED <<tables, schemaT, now, procs>>

\* ---------------------------------------------------------- queries on lists
\* the characters of a str, one by one
RECURSIVE Expand(_)
Expand(s) == IF s = <<>> THEN <<>> ELSE [i \in 1..Head(s).n |-> Head(s).ch] \o Expand(Tail(s))

\* text ILIKE '%' || query.strip() || '%', for a query without % and _
ILike(text, query) ==
    LET hay == Expand(Lower(text))
        needle == Expand(Lower(Strip(query)))
    IN  \E i \in 0..(Len(hay) - Len(needle)) : SubSeq(hay, i + 1, i + Len(needle)) = needle

\* the orders in which a query may return these rows: Before(a, b) says that the ORDER BY
\* puts a ahead of b, and rows it does not tell apart come in any order
OrderBy(rows, Before(_, _)) ==
    {s \in [1..Cardinality(rows) -> rows] :
        /\ \A i, j \in DOMAIN s : i # j => s[i] # s[j]
        /\ \A i, j \in DOMAIN s : i < j => ~Before(s[j], s[i])}

\* LIMIT %s OFFSET %s
LimitOffset(s, limit, offset) == SubSeq(s, offset + 1, IF Len(s) < offset + limit THEN Len(s) ELSE offset + limit)

\* ul.likes_count DESC NULLS LAST
LikesDescNullsLast(a, b) == a.likes_count # NullNum /\ (b.likes_count = NullNum \/ a.likes_count[1] > b.likes_count[1])

\* ORDER BY ul.likes_count DESC NULLS LAST, ul.updated_at DESC
PopularOrder(a, b) ==
    \/ LikesDescNullsLast(a, b)
    \/ a.likes_count = b.likes_count /\ a.updated_at > b.updated_at

\* (COALESCE(ul.likes_count,0) + COALESCE(ul.comments_count,0)) AS engagement_score
engagement_score_LikesOnly(r) == Coalesce(r.likes_count, 0)

engagement_score(r) == Coalesce(r.likes_count, 0) + Coalesce(r.comments_count, 0)

\* ORDER BY engagement_score DESC, ul.likes_count DESC NULLS LAST, ul.updated_at DESC
EngagementOrder(a, b) ==
    \/ engagement_score(a) > engagement_score(b)
    \/ engagement_score(a) = engagement_score(b) /\ PopularOrder(a, b)

\* FROM user_lists ul JOIN users u ON ul.user_id = u.id
JoinUsers(ul) == {r \in ul : r.user_id \in DOMAIN users}

\* the WHERE of search_lists; viewer_user_id is 0 for None.  The rows carry no description.
SearchWhere_AnyViewer(r, query, viewer_user_id) ==
    /\ r.is_public \/ viewer_user_id # 0
    /\ ILike(r.name, query) \/ ILike(users[r.user_id].username, query)

SearchWhere(r, query, viewer_user_id) ==
    /\ r.is_public \/ (viewer_user_id # 0 /\ r.user_id = viewer_user_id)
    /\ ILike(r.name, query) \/ ILike(users[r.user_id].username, query)

\* the three queries: the ids of the rows they return, in order
search_lists(query, viewer_user_id, limit, offset) ==
    \E s \in OrderBy({r \in JoinUsers(user_lists) : SearchWhere(r, query, viewer_user_id)}, PopularOrder) :
        /\ ret' = [Response("search_lists", "ok", viewer_user_id, 0, 0) EXCEPT !.name = query, !.arg = limit, !.rows = [i \in DOMAIN LimitOffset(s, limit, offset) |-> LimitOffset(s, limit, offset)[i].id]]
        /\ UNCHANGED <<tables, schemaT, now, procs>>

get_popular_lists(limit) ==
    \E s \in OrderBy({r \in JoinUsers(user_lists) : r.is_public}, PopularOrder) :
        /\ ret' = [Response("get_popular_lists", "ok", 0, 0, 0) EXCEPT !.arg = limit, !.rows = [i \in DOMAIN LimitOffset(s, limit, 0) |-> LimitOffset(s, limit, 0)[i].id]]
        /\ UNCHANGED <<tables, schemaT, now, procs>>

get_top_lists_by_engagement(limit) ==
    \E s \in OrderBy({r \in JoinUsers(user_lists) : r.is_public}, EngagementOrder) :
        /\ ret' = [Response("get_top_lists_by_engagement", "ok", 0, 0, 0) EXCEPT !.arg = limit, !.rows = [i \in DOMAIN LimitOffset(s, limit, 0) |-> LimitOffset(s, limit, 0)[i].id]]
        /\ UNCHANGED <<tables, schemaT, now, procs>>

\* a NULL timestamp; every INSERT of the code leaves the column to its default
NullTs == -1

\* COALESCE(ts, to_timestamp(0))
CoalesceTs(ts) == IF ts = NullTs THEN 0 ELSE ts

\* the rows of the UNION ALL in get_user_recent_activity: ord is uw.id in the first branch
\* and li.id in the second
ActivityEvents(user_id) ==
    {[action |-> "watched", ts |-> q[1].watched_at, ord |-> q[1].id, tmdb_id |-> q[2].tmdb_id, media_type |-> q[2].media_type, title |-> q[2].title] :
        q \in {w \in user_watched \X content : w[1].user_id = user_id /\ w[1].content_id = w[2].id}}
    \cup
    {[action |-> "listed", ts |-> q[1].added_at, ord |-> q[1].id, tmdb_id |-> q[3].tmdb_id, media_type |-> q[3].media_type, title |-> q[3].title] :
        q \in {w \in list_items \X user_lists \X content : w[1].list_id = w[2].id /\ w[2].user_id = user_id /\ w[1].content_id = w[3].id}}

\* ORDER BY COALESCE(ts, to_timestamp(0)) DESC, ord DESC
ActivityOrder(a, b) ==
    \/ CoalesceTs(a.ts) > CoalesceTs(b.ts)
    \/ CoalesceTs(a.ts) = CoalesceTs(b.ts) /\ a.ord > b.ord

\* the dicts returned for the first rows of s
ActivityRows(s, limit) == [i \in DOMAIN LimitOffset(s, limit, 0) |-> [action |-> s[i].action, timestamp |-> s[i].ts, tmdb_id |-> s[i].tmdb_id, media_type |-> s[i].media_type, title |-> s[i].title]]

\* get_user_recent_activity: rows the ORDER BY does not tell apart come in any order
get_user_recent_activity(user_id, limit) ==
    \E s \in OrderBy(ActivityEvents(user_id), ActivityOrder) :
        /\ ret' = [Response("get_user_recent_activity", "ok", user_id, 0, 0) EXCEPT !.arg = limit, !.rows = ActivityRows(s, limit)]
        /\ UNCHANGED <<tables, schemaT, now, procs>>

Tick == /\ now < MaxClock
        /\ now' = now + 1
        /\ UNCHANGED <<tables, schemaT, ret, procs>>

\* The registered usernames: they differ also when case is ignored.
Username(u) == Rep("a", u)

\* The store before any request: the registered users and no other row.  cku is whether
\* the schema declares the unique keys no ON CONFLICT clause of the code shows (on
\* content and on user_follows), dflt the default of users.followers_count and
\* users.following_count.
InitStoreOf(cku, dflt, ul, ts) ==
    /\ content = {}
    /\ user_watched = {}
    /\ user_ratings = {}
    /\ user_rating_likes = EmptyBag
    /\ user_lists = ul
    /\ list_likes = EmptyBag
    /\ list_comments = {}
    /\ list_comments_seq = 0
    /\ list_items = {}
    /\ users = [u \in Users |-> [id |-> u, username |-> Username(u), followers_count |-> dflt, following_count |-> dflt]]
    /\ user_follows = {}
    /\ user_follows_seq = 0
    /\ content_key_unique = cku
    /\ follow_key_unique = cku
    /\ like_key_unique = cku
    /\ list_name_unique = cku
    /\ now = ts
    /\ ret = NoResponse
    /\ procs = [p \in Procs |-> IdleProc]

InitStore(cku, dflt) == InitStoreOf(cku, dflt, {}, 0)

\* with the unique keys left open: two racing requests can tell
Init == \E cku \in BOOLEAN : InitStore(cku, <<0>>)

\* for handlers run one at a time, which look a content up before they insert it
InitSeq == InitStore(TRUE, <<0>>)

MarkAsWatched == \E u \in Users, i \in TmdbIds, m \in MediaTypes, t \in Titles : mark_as_watched(u, i, m, t)

NextWatch == MarkAsWatched

\* a call of get_or_create_content by itself
GetOrCreateContent ==
    \E i \in TmdbIds, m \in MediaTypes, t \in Titles :
        \E g \in get_or_create_content(content, i, m, t) :
            /\ content' = g.content
            /\ ret' = [Response("get_or_create_content", "ok", 0, i, Cardinality(g.content) - Cardinality(content)) EXCEPT !.media_type = m, !.title = t, !.id = g.id]
            /\ UNCHANGED <<watchT, ratingT, listT, itemT, followT, schemaT, now, procs>>

\* lookups of a content between the calls that change its counters
NextContent == GetOrCreateContent \/ MarkAsWatched

\* -------------------------------------------------------- the specifications
SpecWatch == InitSeq /\ [][NextWatch]_vars

SpecContent == InitSeq /\ [][NextContent]_vars

\* Two requests, each one mark_as_watched call, interleaved statement by statement.
NextWatchConc == \E p \in Procs : mw_call(p) \/ goc_select(p) \/ goc_insert(p) \/ mw_insert_watched(p) \/ mw_update_count(p)

SpecWatchConc == Init /\ [][NextWatchConc]_vars
ListNames == {<<>>, Rep(" ", 2), Rep("a", 1), Rep("A", 1), Rep(" ", 1) \o Rep("a", 1) \o Rep(" ", 2), Rep("a", 1) \o Rep(" ", 1) \o Rep("b", 1), Rep("b", MaxNameLen), Rep("b", MaxNameLen + 1), Rep(" ", 1) \o Rep("b", MaxNameLen) \o Rep(" ", 1)}

\* MaxLists bounds the table: a call that would insert one more row is not taken
CreateUserList ==
    \E u \in Users, n \in ListNames, pub \in {TRUE} :
        /\ Cardinality(user_lists) < MaxLists \/ CreateListError(user_lists, u, n) # Null
        /\ create_user_list(u, n, pub)

\* create_user_list alone, over names at every edge of its validation
NextCreate == CreateUserList

SpecCreate == InitSeq /\ [][NextCreate]_vars

RatingScores == {-10, -5, 605, 800, 1010}

\* add_rating_view alone on one content, over scores at every edge of its validation
AddRating == \E u \in Users, i \in TmdbIds, m \in {"movie"}, t \in {"t1", Null}, x \in RatingScores, rv \in {Null} : add_rating_view(u, i, m, t, x, rv)

NextRating == AddRating \/ Tick

SpecRating == InitSeq /\ [][NextRating]_vars

\* the users who write reviews and like them
Reviewers == {1, 2}

AddReview == \E u \in Reviewers : add_rating_view(u, 1, "movie", "t1", 800, "r")

\* likes on ids up to one past the rows there can be
ToggleLikeReview == \E u \in Reviewers, r \in 1..(Cardinality(Reviewers) + 1) : toggle_like_review(u, r)

\* reviews of one content and the likes on them
NextReviewLike == AddReview \/ ToggleLikeReview \/ Tick

SpecReviewLike == InitSeq /\ [][NextReviewLike]_vars

\* one owner's lists
CreateListL == \E n \in {Rep("a", 1), Rep("b", 1)} : Cardinality(user_lists) < MaxLists /\ create_user_list(1, n, TRUE)

\* one review
AddReviewL == add_rating_view(1, 1, "movie", "t1", 800, "r")

\* likes by every user, on ids up to one past the rows there can be
ToggleLikeList == \E u \in Users, l \in 1..(MaxLists + 1) : toggle_like_list(u, l)

ToggleLikeReviewL == \E u \in Users, r \in 1..2 : toggle_like_review(u, r)

\* lists, a review and the likes on them
NextLikes == CreateListL \/ AddReviewL \/ ToggleLikeList \/ ToggleLikeReviewL

SpecLikes == InitSeq /\ [][NextLikes]_vars

CreateListA == \E u \in {1, 2} : Cardinality(user_lists) < MaxLists /\ create_user_list(u, Rep("a", 1), TRUE)

CommentTexts == {<<>>, Rep(" ", 1), Rep(" ", 1) \o Rep("a", 1) \o Rep(" ", 1)}

\* MaxComments bounds the serial of list_comments: a call that would draw one more id is not taken
AddListComment ==
    \E u \in Users, l \in 1..MaxLists, t \in CommentTexts :
        /\ list_comments_seq < MaxComments \/ CommentError(t) # Null
        /\ add_list_comment(u, l, t)

DeleteListComment == \E u \in Users, c \in 1..(MaxComments + 1) : delete_list_comment(u, c)

\* lists and the comments on them
NextComments == CreateListA \/ AddListComment \/ DeleteListComment

SpecComments == InitSeq /\ [][NextComments]_vars

\* no name, an unknown name and the names of two users
FollowNames == {<<>>, Rep("b", 1), Username(1), Username(2)}

\* the call would insert a follow row
WouldFollow(u, n) == \E t \in DOMAIN users : t # u /\ Lower(users[t].username) = Lower(n) /\ ~\E r \in user_follows : r.follower_id = u /\ r.followee_id = t

\* MaxFollows bounds the serial of user_follows
ToggleFollow ==
    \E u \in Users, n \in FollowNames :
        /\ WouldFollow(u, n) => user_follows_seq < MaxFollows
        /\ toggle_follow(u, n)

\* the inputs of the first user, accepted and refused
CreateListV ==
    \E n \in {<<>>, Rep("a", 1), Rep("b", MaxNameLen + 1)} :
        /\ Cardinality(user_lists) < MaxLists \/ CreateListError(user_lists, 1, n) # Null
        /\ create_user_list(1, n, TRUE)

AddListCommentV ==
    \E t \in {<<>>, Rep(" ", 1), Rep("a", 1)} :
        /\ list_comments_seq < MaxComments \/ CommentError(t) # Null
        /\ add_list_comment(1, 1, t)

AddRatingV == \E x \in {-10, 605, 1010} : add_rating_view(1, 1, "movie", "t1", x, Null)

\* the four handlers that validate their input, each over accepted and refused inputs
NextValidate == CreateListV \/ AddListCommentV \/ AddRatingV \/ ToggleFollow

SpecValidate == InitSeq /\ [][NextValidate]_vars

\* MaxLists bounds the table user_lists
AddToListView ==
    \E u \in Users, l \in 0..(MaxLists + 1), t \in {"t1", Null} :
        add_to_list_view(u, l, 1, "movie", t)

\* lists of every user and the items put on them, over list ids from the missing field
\* to one past the rows there can be
NextItems == CreateListA \/ AddToListView \/ Tick

SpecItems == InitSeq /\ [][NextItems]_vars

CreateListN == Cardinality(user_lists) < MaxLists /\ create_user_list(1, Rep("a", 1), TRUE)

AddToListViewN == \E u \in Users, l \in 1..(MaxLists + 1) : add_to_list_view(u, l, 1, "movie", "t1")

AddListCommentN ==
    \E u \in Users, l \in 1..(MaxLists + 1) :
        /\ list_comments_seq < MaxComments
        /\ add_list_comment(u, l, Rep("a", 1))

\* the three mutations of a list, on ids up to one past the rows there can be
NextMissing == CreateListN \/ AddToListViewN \/ ToggleLikeList \/ AddListCommentN

SpecMissing == InitSeq /\ [][NextMissing]_vars

\* the counters of a list row as the queries may find them: likes_count, comments_count
FeedCounters == {<<<<5>>, <<10>>>>, <<<<8>>, <<0>>>>, <<<<5>>, <<3>>>>, <<<<0>>, <<8>>>>, <<NullNum, <<8>>>>, <<<<8>>, NullNum>>}

\* a list row less its id: a public list "b" of the first user, or a private list "A" of
\* either of two users; user_id, name, is_public, counters, updated_at
FeedRows ==
    ({1} \X {"b"} \X {TRUE} \X FeedCounters \X {0, MaxClock})
        \cup ({1, 2} \X {"A"} \X {FALSE} \X {<<<<8>>, <<0>>>>} \X {MaxClock})

FeedTables(ids) ==
    {{[id |-> i, user_id |-> f[i][1], name |-> Rep(f[i][2], 1), is_public |-> f[i][3], likes_count |-> f[i][4][1], comments_count |-> f[i][4][2], created_at |-> 0, updated_at |-> f[i][5]] : i \in ids} :
        f \in [ids -> FeedRows]}

\* the store with up to MaxLists lists in it, at an instant not before their updates
InitFeeds ==
    \E n \in 0..MaxLists : \E ul \in FeedTables(1..n) :
        InitStoreOf(TRUE, <<0>>, ul, MaxClock)

SearchLists == \E q \in {Rep(" ", 1) \o Rep("a", 1), Rep("b", 1)}, v \in 0..2 : search_lists(q, v, 24, 0)

GetPopularLists == \E limit \in {1, 12} : get_popular_lists(limit)

GetTopListsByEngagement == \E limit \in {1, 6} : get_top_lists_by_engagement(limit)

\* the queries of the lists page and the home page, on any table of lists
NextFeeds == SearchLists \/ GetPopularLists \/ GetTopListsByEngagement

SpecFeeds == InitFeeds /\ [][NextFeeds]_vars

WatchD == \E u \in {1, 2}, m \in MediaTypes : mark_as_watched(u, 1, m, "t1")

MovieDetail == \E u \in 0..1, search \in BOOLEAN, details \in BOOLEAN : movie_detail(u, 1, search, details)

TvDetail == \E u \in 0..1, search \in BOOLEAN, details \in BOOLEAN : tv_detail(u, 1, search, details)

\* the detail pages of a movie and a show that users watch and review, with a media
\* catalog that may fail at either request
NextDetail == WatchD \/ AddReviewL \/ MovieDetail \/ TvDetail

SpecDetail == InitSeq /\ [][NextDetail]_vars

WatchE == \E u \in {1, 2} : mark_as_watched(u, 1, "movie", "t1")

RateE == add_rating_view(2, 1, "movie", "t1", 800, "r")

AddToListE == add_to_list_view(1, 1, 1, "movie", "t1")

LikeListE == toggle_like_list(2, 1)

LikeReviewE == toggle_like_review(1, 1)

CommentE == list_comments_seq < MaxComments /\ add_list_comment(2, 1, Rep("a", 1))

DeleteCommentE == \E c \in 1..MaxComments : delete_list_comment(1, c)

FollowE == (WouldFollow(2, Username(1)) => user_follows_seq < MaxFollows) /\ toggle_follow(2, Username(1))

\* every operation that writes to the store, one call at a time
NextEvery == WatchE \/ RateE \/ CreateListN \/ AddToListE \/ LikeListE \/ LikeReviewE \/ CommentE \/ DeleteCommentE \/ FollowE

SpecEvery == InitSeq /\ [][NextEvery]_vars

\* calls run alone, before any request is under way
CreateListQ == (\A p \in Procs : procs[p].pc = "idle") /\ CreateListN

RateQ == (\A p \in Procs : procs[p].pc = "idle") /\ RateE

CulCall == \E p \in Procs, u \in {1, 2}, n \in {<<>>, Rep("a", 1), Rep("A", 1), Rep(" ", 1) \o Rep("a", 1)} : cul_call(p, u, n)

\* two requests that create a list, statement by statement, after lists created alone
NextCreateConc == CreateListQ \/ CulCall \/ \E p \in Procs : cul_select(p) \/ cul_insert(p)

SpecCreateConc == Init /\ [][NextCreateConc]_vars

WatchA == \E m \in MediaTypes : mark_as_watched(1, 1, m, "t1")

AddToListA == \E m \in MediaTypes : add_to_list_view(1, 1, 1, m, "t1")

RecentActivity == \E u \in Users, limit \in {1, 5} : get_user_recent_activity(u, limit)

\* the profile's activity feed among watch marks and additions to a list, as time passes
NextActivity == CreateListN \/ WatchA \/ AddToListA \/ Tick \/ RecentActivity

SpecActivity == InitSeq /\ [][NextActivity]_vars

Profile == \E n \in FollowNames \ {<<>>} : profile(n)

\* users whose followers_count and following_count were never initialised
InitNullCounters == InitStore(TRUE, NullNum)

\* follows and profile pages on such users
NextFollowNull == ToggleFollow \/ Profile

SpecFollowNull == InitNullCounters /\ [][NextFollowNull]_vars

\* the media_type of a request body is whatever the client sent
RequestMediaTypes == MediaTypes \cup {"person"}

AddToListAny == \E u \in Users, l \in 1..MaxLists, m \in RequestMediaTypes : add_to_list_view(u, l, 1, m, "t1")

GetListItemCounts == \E l \in 1..(MaxLists + 1) : get_list_item_counts(l)

\* add-to-list requests on the lists of two users, and the item counts of the list page
NextItemCounts == CreateListA \/ AddToListAny \/ GetListItemCounts

SpecItemCounts == InitSeq /\ [][NextItemCounts]_vars

CreateListP == \E pub \in BOOLEAN : Cardinality(user_lists) < MaxLists /\ create_user_list(1, Rep("a", 1 + Cardinality(user_lists)), pub)

ToggleLikeP == \E u \in Users : toggle_like_list(u, 1)

AddListCommentP ==
    \E u \in Users, l \in 1..MaxLists :
        /\ list_comments_seq < MaxComments
        /\ add_list_comment(u, l, Rep("a", 1))

\* likes and comments by the owner and by another user on public and private lists
NextPrivate == CreateListP \/ ToggleLikeP \/ AddListCommentP \/ Tick

SpecPrivate == InitSeq /\ [][NextPrivate]_vars

\* the user each of the two concurrent requests is logged in as
UserOf(p) == IF p = "p1" THEN 1 ELSE 2

\* before any request is under way: user 1, then user 2, creates a list
CreateListsQ ==
    /\ \A p \in Procs : procs[p].pc = "idle"
    /\ Cardinality(user_lists) < MaxLists
    /\ create_user_list(IF user_lists = {} THEN 1 ELSE 2, Rep("a", 1), TRUE)

CommentQ == (\A p \in Procs : procs[p].pc = "idle") /\ CommentE

LikeQ == (\A p \in Procs : procs[p].pc = "idle") /\ LikeListE

MwCall == \E p \in Procs : mw_call(p) /\ procs'[p].user_id = UserOf(p) /\ procs'[p].media_type = "movie" /\ procs'[p].title = "t1"

\* add_to_list_view calls add_to_list for the owner of the list only
AtlCall == \E p \in Procs, l \in 1..MaxLists : verify_user_owns_list(user_lists, UserOf(p), l) /\ atl_call(p, l, 1, "movie", "t1")

TllCallAs == \E p \in Procs : tll_call(p, UserOf(p), 1)

AlcCall ==
    \E p \in Procs :
        /\ list_comments_seq + Cardinality({q \in Procs : procs[q].pc = "alc_insert"}) < MaxComments
        /\ alc_call(p, UserOf(p), 1, Rep("a", 1))

DlcCall == \E p \in Procs, c \in 1..MaxComments : dlc_call(p, UserOf(p), c)

\* Two requests by two users, each one call of a function that rewrites a counter,
\* interleaved statement by statement, on lists and comments written beforehand.
NextCounters ==
    \/ CreateListsQ \/ CommentQ \/ LikeQ
    \/ MwCall \/ AtlCall \/ TllCallAs \/ AlcCall \/ DlcCall
    \/ \E p \in Procs : goc_select(p) \/ goc_insert(p) \/ mw_insert_watched(p) \/ mw_count(p) \/ mw_write(p)
    \/ \E p \in Procs : atl_insert(p) \/ atl_count(p) \/ atl_write(p)
    \/ \E p \in Procs : tll_select(p) \/ tll_delete(p) \/ tll_insert(p) \/ tll_count(p) \/ tll_write(p)
    \/ \E p \in Procs : alc_insert(p) \/ alc_count(p) \/ alc_write(p)
    \/ \E p \in Procs : dlc_select_comment(p) \/ dlc_select_list(p) \/ dlc_delete(p) \/ dlc_count(p) \/ dlc_write(p)

SpecCounters == Init /\ [][NextCounters]_vars

TllCall == \E p \in Procs, u \in {1, 2} : tll_call(p, u, 1)

TlrCall == \E p \in Procs, u \in {1, 2} : tlr_call(p, u, 1)

\* two requests that toggle a like on the list or on the review, statement by statement
NextLikeConc ==
    \/ CreateListQ \/ RateQ \/ TllCall \/ TlrCall
    \/ \E p \in Procs : tll_select(p) \/ tll_delete(p) \/ tll_insert(p) \/ tll_update(p)
    \/ \E p \in Procs : tlr_select(p) \/ tlr_delete(p) \/ tlr_insert(p) \/ tlr_update(p)

SpecLikeConc == Init /\ [][NextLikeConc]_vars

\* no request is between two of its statements
Quiet == \A p \in Procs : procs[p].pc \in {"idle", "done"}

\* a toggle_follow that no other request overlaps
ToggleFollowAlone ==
    \E u \in Users, n \in {Username(1), Username(2)} :
        /\ Quiet
        /\ WouldFollow(u, n) => user_follows_seq < MaxFollows
        /\ toggle_follow(u, n)

TfCall == \E p \in Procs, u \in Users, n \in {Username(1), Username(2)} : tf_call(p, u, n)

\* Two requests, each one toggle_follow, interleaved statement by statement, among
\* toggle_follow requests that run alone.
NextFollowConc ==
    \/ ToggleFollowAlone
    \/ TfCall
    \/ \E p \in Procs : tf_select_row(p) \/ tf_delete(p) \/ tf_insert(p) \/ tf_update_followers(p) \/ tf_update_following(p) \/ tf_select_count(p)

SpecFollowConc == Init /\ [][NextFollowConc]_vars

\* -------------------------------------------------------------- properties
WatchRowsOf(user_id, tmdb_id, media_type) == {r \in user_watched : r.user_id = user_id /\ r.content_id \in SelectContentIds(content, tmdb_id, media_type)}

WatchersOf(content_id) == {r.user_id : r \in {x \in user_watched : x.content_id = content_id}}

C1_Inv ==
    /\ \A u \in Users, i \in TmdbIds, m \in MediaTypes : Cardinality(WatchRowsOf(u, i, m)) <= 1
    /\ \A c \in content : c.watched_count = Cardinality(WatchersOf(c.id))

C1_Step ==
    \A u \in Users, i \in TmdbIds, m \in MediaTypes :
        (/\ has_user_watched(content, user_watched, u, i, m)
         /\ ret'.op = "mark_as_watched" /\ ret'.actor = u /\ ret'.subject = i /\ ret'.media_type = m)
        => /\ user_watched' = user_watched
           /\ \A c \in content : \E d \in content' : d.id = c.id /\ d.watched_count = c.watched_count

\* C1: after any sequence of mark_as_watched calls run one at a time there is at most one
\* watch row per (user, content), watched_count is the number of distinct users holding a
\* watch row for the content, and a repeated mark_as_watched adds no row and leaves
\* watched_count unchanged.
C1_WatchedOnceAndCounted == [](C1_Inv) /\ [][C1_Step]_vars

\* a repeated mark_as_watched has returned, on a content two users have watched
C1_Witness == ret.op = "mark_as_watched" /\ ret.rowcount = 0 /\ \E c \in content : c.watched_count = 2

\* a call of op returns in this step
Returned(op) == ret'.op = op /\ now' = now /\ procs' = procs

C5_Step ==
    Returned("create_user_list") =>
        LET u == ret'.actor
            t == Strip(ret'.name)
            valid == /\ t # <<>>
                     /\ StrLen(t) <= 200
                     /\ \A r \in user_lists : r.user_id = u => Lower(r.name) # Lower(t)
        IN  IF valid
            THEN /\ ret'.status = "ok"
                 /\ \E r \in user_lists' : /\ r \notin user_lists
                                            /\ r.user_id = u /\ r.name = t
                                            /\ user_lists' = user_lists \cup {r}
            ELSE /\ ret'.status = "ValueError"
                 /\ user_lists' = user_lists

\* C5: create_user_list succeeds exactly when the trimmed name is non-empty, has at most
\* 200 characters and differs, ignoring case, from every name of the owner's lists, and
\* then stores the trimmed name; otherwise it raises ValueError and stores nothing.  Lists
\* of other owners do not count.
C5_CreateListValidation == [][C5_Step]_vars

\* two owners hold lists of the same name, and a call has just been refused as a duplicate
C5_Witness ==
    /\ ret.op = "create_user_list" /\ ret.status = "ValueError"
    /\ ret.error = "You already have a list with that name"
    /\ \E r \in user_lists : r.user_id = ret.actor /\ r.name # Strip(ret.name) /\ Lower(r.name) = Lower(Strip(ret.name))
    /\ \E r1, r2 \in user_lists : r1.user_id # r2.user_id /\ r1.name = r2.name

RatingsOf(content_id) == {r \in user_ratings : r.content_id = content_id}

C6_Inv ==
    /\ \A r1, r2 \in user_ratings : (r1.user_id = r2.user_id /\ r1.content_id = r2.content_id) => r1 = r2
    /\ \A c \in content :
          /\ c.total_scores = Cardinality(RatingsOf(c.id))
          /\ IF RatingsOf(c.id) = {} THEN c.avg_score = NullNum
             ELSE /\ c.avg_score # NullNum
                  /\ c.avg_score[1] * Cardinality(RatingsOf(c.id)) = c.avg_score[2] * SumScores(RatingsOf(c.id))
                  /\ c.avg_score[2] > 0

C6_Step ==
    (Returned("add_rating_view") /\ ret'.status = "ok") =>
        \E c \in content' :
            /\ c.tmdb_id = ret'.subject /\ c.media_type = ret'.media_type
            /\ \E r \in user_ratings' : r.user_id = ret'.actor /\ r.content_id = c.id /\ r.score = IntOfTenths(ret'.arg)
            /\ \A r \in user_ratings : (r.user_id # ret'.actor \/ r.content_id # c.id) => r \in user_ratings'
            /\ Cardinality(user_ratings') <= Cardinality(user_ratings) + 1

\* C6: after any sequence of add_rating calls there is one rating row per rated (user,
\* content) holding the user's latest score, avg_score is the mean of the rows' scores
\* and total_scores their number.
C6_OneRatingLatestScore == [](C6_Inv) /\ [][C6_Step]_vars

\* a user has overwritten a rating, on a content two users have rated with different scores
C6_Witness ==
    /\ ret.op = "add_rating_view" /\ ret.status = "ok"
    /\ \E r \in user_ratings : r.user_id = ret.actor /\ r.updated_at > r.rated_at /\ r.score = 60
    /\ \E c \in content : c.total_scores = 2 /\ c.avg_score = <<70, 1>>

\* C3: two consecutive toggle_like_list calls by one user on one existing list, with no
\* other operation in between, leave the pair liked or not liked as it was before the
\* first call, and the list's likes_count as it was.
C3_ToggleTwiceRestores ==
    (ret.op = "toggle_like_list" /\ ret.status = "ok" /\ ret.twice # <<>>) =>
        /\ LikeExists(list_likes, ret.actor, ret.subject) = ret.twice[1].liked
        /\ ListRow(user_lists, ret.subject).likes_count = <<ret.twice[1].count>>

\* a user has liked and then unliked a list that another user likes
C3_Witness ==
    /\ ret.op = "toggle_like_list" /\ ret.status = "ok" /\ ret.twice # <<>>
    /\ ret.twice[1].liked = FALSE /\ ret.twice[1].count = 1 /\ ret.liked = FALSE

C4_StepOf(op, likes, likes_after) ==
    (Returned(op) /\ ret'.status = "ok") =>
        LET pair == <<ret'.actor, ret'.subject>>
        IN  /\ (ret'.liked = TRUE) <=> (~BagIn(pair, likes) /\ BagIn(pair, likes_after))
            /\ (ret'.liked = FALSE) <=> (BagIn(pair, likes) /\ ~BagIn(pair, likes_after))
            /\ ret'.count = <<CountLikes(likes_after, ret'.subject)>>

C4_Step ==
    /\ C4_StepOf("toggle_like_list", list_likes, list_likes')
    /\ C4_StepOf("toggle_like_review", user_rating_likes, user_rating_likes')

\* C4: toggle_like_list and toggle_like_review return liked = true exactly when the like
\* row of (user, subject) was absent before the call and is present after it, liked =
\* false exactly when it was present before and is absent after, and the likes_count they
\* return is the number of like rows on the subject after the call.
C4_ToggleReturnsState == [][C4_Step]_vars

\* a user has withdrawn the like of a review that another user still likes
C4_Witness == ret.op = "toggle_like_review" /\ ret.status = "ok" /\ ret.liked = FALSE /\ ret.count = <<1>>

C7_Step ==
    LET rows == {r \in list_comments : r.id = ret'.subject}
        row == CHOOSE r \in rows : TRUE
        owner == ListRow(user_lists, row.list_id).user_id
    IN  (Returned("delete_list_comment") /\ rows # {} /\ row.list_id \in ListIds(user_lists)) =>
            IF ret'.actor = row.user_id \/ ret'.actor = owner
            THEN /\ ret'.status = "ok"
                 /\ list_comments' = list_comments \ {row}
            ELSE /\ ret'.status = "PermissionError"
                 /\ list_comments' = list_comments
                 /\ ListRow(user_lists', row.list_id).comments_count = ListRow(user_lists, row.list_id).comments_count

\* C7: delete_list_comment deletes the comment when the actor is its author or the owner
\* of the list it belongs to; for every other actor it raises PermissionError, and the
\* comment row and the list's comments_count stay as they were.
C7_DeletePermission == [][C7_Step]_vars

\* a third party has been refused, and the list owner has a comment of another user to delete
C7_Witness ==
    /\ ret.op = "delete_list_comment" /\ ret.status = "PermissionError"
    /\ \E r \in list_comments : r.id = ret.subject /\ r.user_id # ret.actor
    /\ \E r \in list_comments : r.user_id # ListRow(user_lists, r.list_id).user_id

\* C8: after any sequence of add_list_comment and delete_list_comment calls run one at a
\* time, each list's comments_count is the number of comment rows on the list, and the
\* comments_count a successful call returns is that number.
C8_CommentsCounted ==
    /\ \A l \in user_lists : l.comments_count = <<Cardinality({r \in list_comments : r.list_id = l.id})>>
    /\ (ret.op = "add_list_comment" /\ ret.status = "ok") => ret.count = <<Cardinality({r \in list_comments : r.list_id = ret.subject})>>
    /\ (ret.op = "delete_list_comment" /\ ret.status = "ok") => ret.count = <<Cardinality({r \in list_comments : r.list_id = ret.arg})>>

\* a comment has been deleted from a list that keeps another one
C8_Witness == ret.op = "delete_list_comment" /\ ret.status = "ok" /\ ret.count = <<1>>

\* the response is one of the validation refusals
Rejected(r) ==
    \/ r.op = "create_user_list" /\ r.status = "ValueError"
    \/ r.op = "add_list_comment" /\ r.status = "ValueError"
    \/ r.op = "add_rating_view" /\ r.status = "400" /\ r.error = "Score must be between 0 and 100"
    \/ r.op = "toggle_follow" /\ r.status = "400" /\ r.error = "Cannot follow yourself"

C9_Step == (Rejected(ret') /\ now' = now /\ procs' = procs) => tables' = tables

\* C9: a call refused with a validation error leaves every table row and every counter
\* as it was and creates no content record: create_user_list with a blank, over-long or
\* duplicate name, add_list_comment with empty or whitespace-only text, a rating with a
\* score outside 0..100, and toggle_follow on the actor's own name.
C9_RejectedWritesNothing == [][C9_Step]_vars

\* a rating out of range has been refused while there is no content record yet, among
\* lists, comments and follows already stored
C9_Witness ==
    /\ ret.op = "add_rating_view" /\ Rejected(ret)
    /\ content = {} /\ user_lists # {} /\ list_comments # {} /\ user_follows # {}

\* reviews (ratings with a text) in the order of ORDER BY updated_at DESC: who precedes whom
ReviewOrder(ur) ==
    LET reviews == {r \in ur : r.review_text # Null}
    IN  {<<p[1].id, p[2].id>> : p \in {q \in reviews \X reviews : q[1].updated_at > q[2].updated_at}}

C10_Step ==
    (Returned("toggle_like_review") /\ ret'.status = "ok") =>
        /\ \A r \in user_ratings : \E q \in user_ratings' :
              /\ q.id = r.id /\ q.user_id = r.user_id /\ q.content_id = r.content_id
              /\ q.score = r.score /\ q.review_text = r.review_text
              /\ q.updated_at = r.updated_at /\ q.rated_at = r.rated_at
              /\ (q.id # ret'.subject => q = r)
        /\ Cardinality(user_ratings') = Cardinality(user_ratings)
        /\ RatingRow(user_ratings', ret'.subject).likes_count # RatingRow(user_ratings, ret'.subject).likes_count
        /\ ReviewOrder(user_ratings') = ReviewOrder(user_ratings)

\* C10: toggle_like_review changes the rating's likes_count and never its updated_at,
\* score or review text, so the order of the reviews by updated_at is the same before and
\* after review-like toggles.
C10_ReviewLikeKeepsOrder == [][C10_Step]_vars

\* the older of two reviews has been liked, after the newer one was written
C10_Witness ==
    /\ ret.op = "toggle_like_review" /\ ret.status = "ok" /\ ret.liked = TRUE
    /\ \E r, q \in user_ratings : r.id = ret.subject /\ r.likes_count = 1 /\ r.updated_at < now /\ q.updated_at > r.updated_at

\* C2: when two requests have both completed mark_as_watched for the same (user, content
\* key), neither has failed and the pair holds exactly one watch row.
C2_ConcurrentMarkOnce ==
    (/\ procs["p1"].pc = "done" /\ procs["p2"].pc = "done"
     /\ procs["p1"].user_id = procs["p2"].user_id
     /\ procs["p1"].tmdb_id = procs["p2"].tmdb_id
     /\ procs["p1"].media_type = procs["p2"].media_type)
    => /\ procs["p1"].status = "ok" /\ procs["p2"].status = "ok"
       /\ Cardinality(WatchRowsOf(procs["p1"].user_id, procs["p1"].tmdb_id, procs["p1"].media_type)) = 1
FollowersOf(uf, user_id) == Cardinality({r \in uf : r.followee_id = user_id})

FollowingOf(uf, user_id) == Cardinality({r \in uf : r.follower_id = user_id})

\* the user the name resolves to
UserNamed(name) == CHOOSE u \in DOMAIN users : Lower(users[u].username) = Lower(name)

C11_Step ==
    (Returned("toggle_follow") /\ ret'.status = "ok") =>
        /\ users'[UserNamed(ret'.name)].followers_count = <<FollowersOf(user_follows', UserNamed(ret'.name))>>
        /\ users'[ret'.actor].following_count = <<FollowingOf(user_follows', ret'.actor)>>

\* C11: an operation that changes a derived counter writes it as the aggregate count of
\* the underlying rows, so that once the operation has completed alone the counter is
\* right whatever it held before; here for toggle_follow: after a toggle_follow that ran
\* alone, the target's followers_count is the number of follow rows on the target and
\* the actor's following_count the number of follow rows of the actor.
C11_CounterIsAggregate == [][C11_Step]_vars

OwnerOf(list_id) == {r.user_id : r \in {x \in user_lists : x.id = list_id}}

C12_Step ==
    Returned("add_to_list_view") =>
        /\ \A r \in list_items' \ list_items : OwnerOf(r.list_id) = {ret'.actor}
        /\ (ret'.status # "400" /\ ret'.actor \notin OwnerOf(ret'.subject)) =>
               /\ ret'.status = "403"
               /\ tables' = tables

\* C12: add_to_list_view puts an item only on a list its caller owns; called with all its
\* fields by a logged-in user who does not own the list it answers 403 and no table
\* changes (no list item, no content record, no list_count).
C12_OnlyOwnerAddsItems == [][C12_Step]_vars

\* a user was refused on a list that another user owns, while that list holds an item
C12_Witness ==
    /\ ret.op = "add_to_list_view"
    /\ ret.status = "403"
    /\ OwnerOf(ret.subject) # {}
    /\ \E r \in list_items : r.list_id = ret.subject

\* the status of the response to the last request, for the three mutations of a list
ListMutationHttp(r) ==
    IF r.op = "toggle_like_list" THEN ToggleLikeHttp(r.status)
    ELSE IF r.op = "add_list_comment" THEN AddListCommentHttp(r.status)
    ELSE IF r.status = "200" THEN 200
    ELSE IF r.status = "400" THEN 400
    ELSE IF r.status = "403" THEN 403
    ELSE 500

C13_Step ==
    (/\ Returned("add_to_list_view") \/ Returned("toggle_like_list") \/ Returned("add_list_comment")
     /\ ret'.subject \notin ListIds(user_lists)) =>
        /\ ListMutationHttp(ret') = 404
        /\ <<list_likes, list_comments, list_items, content>>' = <<list_likes, list_comments, list_items, content>>

\* C13: adding an item, toggling a like or adding a comment on a list id that has no
\* row is answered 404 (not the 403 of a permission rejection) and leaves no like row,
\* comment row, list item or content record behind.
C13_MissingListIsNotFound == [][C13_Step]_vars

ContentOf(c, tmdb_id, media_type) == CHOOSE r \in c : r.tmdb_id = tmdb_id /\ r.media_type = media_type

ItemsOf(li, list_id, content_id) == {r \in li : r.list_id = list_id /\ r.content_id = content_id}

C14_Step ==
    (Returned("add_to_list_view") /\ ret'.status = "200") =>
        LET c == ContentOf(content', ret'.arg, ret'.media_type)
        IN  /\ Cardinality(ItemsOf(list_items', ret'.subject, c.id)) = 1
            /\ ItemsOf(list_items, ret'.subject, c.id) # {} =>
                   ItemsOf(list_items', ret'.subject, c.id) = ItemsOf(list_items, ret'.subject, c.id)
            /\ c.list_count = Cardinality({r \in list_items' : r.content_id = c.id})
            /\ user_lists' = user_lists

\* C14: after add_to_list the list holds exactly one item row for the content, the row
\* it held before (with its add time) when it held one; the content's list_count is
\* the number of item rows of that content; the list's own row (likes_count,
\* comments_count, updated_at) is unchanged.
C14_AddToListIdempotent == [][C14_Step]_vars

\* a content was added again, later than its item row was made, to one of two lists holding it
C14_Witness ==
    /\ ret.op = "add_to_list_view"
    /\ ret.status = "200"
    /\ ret.rowcount = 0
    /\ \E r \in list_items : r.list_id = ret.subject /\ r.added_at < now
    /\ \E r \in content : r.list_count = 2

RowsOfKey(c, tmdb_id, media_type) == {r \in c : r.tmdb_id = tmdb_id /\ r.media_type = media_type}

C15_Step ==
    /\ \A r \in content : \E r2 \in content' : r2.id = r.id /\ r2.tmdb_id = r.tmdb_id /\ r2.media_type = r.media_type /\ r2.title = r.title
    /\ Returned("get_or_create_content") =>
           /\ {r.id : r \in RowsOfKey(content', ret'.subject, ret'.media_type)} = {ret'.id}
           /\ Cardinality(RowsOfKey(content', ret'.subject, ret'.media_type)) = 1
           /\ RowsOfKey(content, ret'.subject, ret'.media_type) # {} => content' = content

\* C15: calls run one at a time.  get_or_create_content returns the id of the one content
\* record of its (tmdb_id, media_type), which no call ever changes, and leaves the
\* record it found as it was (title, counters), whatever title it was given.
C15_GetOrCreateIsStable == [][C15_Step]_vars

\* a record with a watcher was looked up under another title
C15_Witness ==
    /\ ret.op = "get_or_create_content"
    /\ ret.rowcount = 0
    /\ \E r \in RowsOfKey(content, ret.subject, ret.media_type) : r.title # ret.title /\ r.watched_count > 0 /\ r.id = ret.id

Returns(op) == ret.op = op /\ ret.status = "ok"

RowsReturned == {ListRow(user_lists, ret.rows[i]) : i \in DOMAIN ret.rows}

\* C16: search_lists, get_popular_lists and get_top_lists_by_engagement return a private
\* list only to its owner: every list search_lists returns is public or owned by the
\* viewer it was called for (and public when called for none), and every list the two
\* feeds return is public.
C16_PrivateListsStayPrivate ==
    /\ Returns("search_lists") => \A r \in RowsReturned : r.is_public \/ (ret.actor # 0 /\ r.user_id = ret.actor)
    /\ (Returns("get_popular_lists") \/ Returns("get_top_lists_by_engagement")) => \A r \in RowsReturned : r.is_public

\* a viewer's search returned their own private list and not the private list of another
\* user that matches the query as well
C16_Witness ==
    /\ Returns("search_lists")
    /\ \E r \in RowsReturned : ~r.is_public /\ r.user_id = ret.actor
    /\ \E r \in user_lists \ RowsReturned : ~r.is_public /\ ILike(r.name, ret.name)

\* a counter, a missing one counted as 0
CounterOr0(x) == IF x = <<>> THEN 0 ELSE x[1]

LikesPlusComments(r) == CounterOr0(r.likes_count) + CounterOr0(r.comments_count)

\* a ranks ahead of b: by the sum, then by likes_count (one that is missing after any
\* that is there), then by the later updated_at
RanksAhead(a, b) ==
    \/ LikesPlusComments(a) > LikesPlusComments(b)
    \/ /\ LikesPlusComments(a) = LikesPlusComments(b)
       /\ \/ a.likes_count # <<>> /\ b.likes_count = <<>>
          \/ a.likes_count # <<>> /\ b.likes_count # <<>> /\ a.likes_count[1] > b.likes_count[1]
          \/ a.likes_count = b.likes_count /\ a.updated_at > b.updated_at

PublicLists == {r \in user_lists : r.is_public}

\* C17: get_top_lists_by_engagement returns public lists, as many as there are up to the
\* limit, none twice, in the order of likes_count + comments_count descending (a missing
\* counter counting 0), then likes_count descending, then updated_at descending; no list
\* left out ranks ahead of one returned.
C17_TopListsByEngagement ==
    Returns("get_top_lists_by_engagement") =>
        /\ RowsReturned \subseteq PublicLists
        /\ Len(ret.rows) = (IF Cardinality(PublicLists) < ret.arg THEN Cardinality(PublicLists) ELSE ret.arg)
        /\ Cardinality(RowsReturned) = Len(ret.rows)
        /\ \A i, j \in DOMAIN ret.rows : i < j => ~RanksAhead(ListRow(user_lists, ret.rows[j]), ListRow(user_lists, ret.rows[i]))
        /\ \A a \in PublicLists \ RowsReturned, b \in RowsReturned : ~RanksAhead(a, b)

\* the list with 5 likes and 10 comments came first, ahead of the list with 8 likes only
C17_Witness ==
    /\ Returns("get_top_lists_by_engagement")
    /\ Len(ret.rows) = 2
    /\ ListRow(user_lists, ret.rows[1]).likes_count = <<5>> /\ ListRow(user_lists, ret.rows[1]).comments_count = <<10>>
    /\ ListRow(user_lists, ret.rows[2]).likes_count = <<8>> /\ ListRow(user_lists, ret.rows[2]).comments_count = <<0>>

C18_Step ==
    /\ \A r \in user_ratings' : r.score \in MinScore..MaxScore
    /\ (Returned("add_rating_view") /\ ret'.status = "ok") => (ret'.arg >= 10 * MinScore /\ ret'.arg <= 10 * MaxScore)

\* C18: every stored score is an integer from 0 to 100, and add_rating_view accepts (and
\* writes a rating row for) only a submitted score from 0 to 100: one below 0 or above
\* 100 is answered 400.  The submitted score is in tenths.
C18_ScoreInRange == [][C18_Step]_vars

C19_Step ==
    (/\ Returned("toggle_follow")
     /\ \E u \in DOMAIN users : u = ret'.actor /\ Lower(users[u].username) = Lower(ret'.name)) =>
        ret'.status = "403"

\* C19: a toggle_follow request of a user on their own username is answered 403.
C19_SelfFollowIsForbidden == [][C19_Step]_vars

C20_Step ==
    ((Returned("movie_detail") \/ Returned("tv_detail")) /\ ret'.arg = 1) =>
        /\ ret'.status = "200"
        /\ ret'.rowcount = 0
        /\ ret'.liked = FALSE
        /\ ret'.count \in {NullNum, <<0>>}

\* C20: when the media catalog returns no data for the details of the item it found,
\* movie_detail and tv_detail answer 200 with no reviews, not watched and zero stats.
C20_DetailPagesDegrade == [][C20_Step]_vars

C21_Step ==
    /\ user_watched \subseteq user_watched'
    /\ \A c \in content : \E c2 \in content' : c2.id = c.id /\ c2.tmdb_id = c.tmdb_id /\ c2.media_type = c.media_type
    /\ \A l \in user_lists : \E l2 \in user_lists' : l2.id = l.id /\ l2.user_id = l.user_id
    /\ \A u \in Users, m \in MediaTypes :
           has_user_watched(content, user_watched, u, 1, m) => has_user_watched(content', user_watched', u, 1, m)

\* C21: no operation removes a watch row, a content record or a list; once
\* has_user_watched(user, content) is true it is true after every later operation.
C21_WatchedStaysWatched == [][C21_Step]_vars

\* a user has watched a content that was since rated, listed, liked and commented around,
\* and the last call deleted a row of another table
C21_Witness ==
    /\ has_user_watched(content, user_watched, 1, 1, "movie")
    /\ user_ratings # {} /\ list_items # {} /\ user_lists # {}
    /\ ret.op \in {"delete_list_comment", "toggle_like_list", "toggle_follow"} /\ ret.status = "ok" /\ ret.rowcount = 1
    /\ ret.op = "toggle_like_list" => ret.liked = FALSE

\* C22: under concurrent toggle_follow requests no follower counter is ever negative,
\* and once every request has completed each user's followers_count is the number of
\* follow rows targeting them and each following_count the number of rows they originate.
C22_FollowCountersAgree ==
    /\ \A u \in DOMAIN users :
           /\ users[u].followers_count # NullNum => users[u].followers_count[1] >= 0
           /\ users[u].following_count # NullNum => users[u].following_count[1] >= 0
    /\ Quiet => \A u \in DOMAIN users :
           /\ users[u].followers_count = <<FollowersOf(user_follows, u)>>
           /\ users[u].following_count = <<FollowingOf(user_follows, u)>>

\* C23: two concurrent toggle_like_list calls, or toggle_like_review calls, by one user
\* on one subject that exists leave at most one like row for the pair, and neither
\* call fails with an error of the store.
C23_ConcurrentToggleLike ==
    /\ \A pair \in DOMAIN list_likes : list_likes[pair] <= 1
    /\ \A pair \in DOMAIN user_rating_likes : user_rating_likes[pair] <= 1
    /\ \A p \in Procs : procs[p].status # "IntegrityError" \/ procs[p].target_id \notin (IF procs[p].op = "toggle_like_list" THEN ListIds(user_lists) ELSE RatingIds(user_ratings))

\* C24: under concurrent create_user_list calls no owner has two lists whose names are
\* equal when case is ignored.
C24_ListNamesUniquePerOwner ==
    \A a, b \in user_lists : (a.user_id = b.user_id /\ Lower(a.name) = Lower(b.name)) => a.id = b.id

InProgress(p) == procs[p].pc \notin {"idle", "done"}

\* C25: under concurrent toggle_like_list, add_list_comment, delete_list_comment,
\* mark_as_watched and add_to_list calls by different users, a stored counter differs
\* from the number of its rows only while a call on that subject is in progress: once
\* every call has completed, likes_count, comments_count, watched_count and list_count
\* equal the row counts.
C25_CountersSettle ==
    /\ \A l \in user_lists :
          /\ l.likes_count # <<CountLikes(list_likes, l.id)>> =>
                \E p \in Procs : InProgress(p) /\ procs[p].op = "toggle_like_list" /\ procs[p].target_id = l.id
          /\ l.comments_count # <<CountComments(list_comments, l.id)>> =>
                \E p \in Procs : InProgress(p) /\ procs[p].op \in {"add_list_comment", "delete_list_comment"} /\ procs[p].target_id = l.id
    /\ \A c \in content :
          /\ c.watched_count # CountWatched(user_watched, c.id) =>
                \E p \in Procs : InProgress(p) /\ procs[p].op = "mark_as_watched" /\ procs[p].tmdb_id = c.tmdb_id /\ procs[p].media_type = c.media_type
          /\ c.list_count # CountListItems(list_items, c.id) =>
                \E p \in Procs : InProgress(p) /\ procs[p].op = "add_to_list" /\ procs[p].tmdb_id = c.tmdb_id /\ procs[p].media_type = c.media_type

C26_Step ==
    LET rows == {r \in list_comments : r.id = ret'.subject}
    IN  Returned("delete_list_comment") =>
            /\ rows = {} => (ret'.status = "ValueError" /\ DeleteCommentHttp(ret'.status) = 404)
            /\ ret'.status = "PermissionError" =>
                  /\ DeleteCommentHttp(ret'.status) = 403
                  /\ \E r \in rows : r.list_id \in ListIds(user_lists)
            /\ ret'.status \in {"ValueError", "PermissionError"} =>
                  /\ list_comments' = list_comments
                  /\ user_lists' = user_lists

\* C26: delete_list_comment checks existence before permission and permission before
\* deletion: an id with no comment row is answered 404 whoever the actor is, 403 is
\* answered only for a comment and a list that exist, and a call rejected either way
\* deletes no row and rewrites no counter.
C26_ExistenceThenPermission == [][C26_Step]_vars

\* the owner of a list with a comment on it has asked for a comment id that has no row
C26_Witness ==
    /\ ret.op = "delete_list_comment" /\ ret.status = "ValueError"
    /\ \E r \in list_comments : ListRow(user_lists, r.list_id).user_id = ret.actor /\ r.user_id # ret.actor
    /\ ~\E r \in list_comments : r.id = ret.subject

C27_Step ==
    Returned("get_user_recent_activity") =>
        \A s \in OrderBy(ActivityEvents(ret'.actor), ActivityOrder) :
            /\ ret'.rows = ActivityRows(s, ret'.arg)
            /\ \A i, j \in DOMAIN s : i < j =>
                  \/ CoalesceTs(s[i].ts) > CoalesceTs(s[j].ts)
                  \/ CoalesceTs(s[i].ts) = CoalesceTs(s[j].ts) /\ s[i].ord > s[j].ord

\* C27: get_user_recent_activity returns the user's watch events and the additions to
\* the user's own lists by descending timestamp (a missing one as the oldest) and, among
\* equal timestamps, by descending sequence id; the order is total, so the store
\* determines the returned sequence, also when a watch event and an addition share a
\* timestamp.
C27_ActivityOrderIsTotal == [][C27_Step]_vars

\* C28: for a user whose followers_count and following_count columns are NULL, the
\* follower count toggle_follow reports and the followers and following counts the
\* profile page shows are the numbers of follow rows of that user.
C28_NullCountersFallBack ==
    /\ (ret.op = "toggle_follow" /\ ret.status = "ok" /\ users[UserNamed(ret.name)].followers_count = NullNum) =>
          ret.count = <<FollowersOf(user_follows, UserNamed(ret.name))>>
    /\ (ret.op = "profile" /\ ret.status = "ok" /\ (users[ret.subject].followers_count = NullNum \/ users[ret.subject].following_count = NullNum)) =>
          /\ ret.count = <<FollowersOf(user_follows, ret.subject)>>
          /\ ret.arg = FollowingOf(user_follows, ret.subject)

\* C29: after any sequence of add-to-list requests, get_list_item_counts returns for
\* every list a total equal to the number of its items, and total = movies + shows.
C29_ItemCountsAddUp ==
    ret.op = "get_list_item_counts" =>
        /\ ret.count = <<Cardinality({r \in list_items : r.list_id = ret.subject})>>
        /\ ret.count = <<ret.arg + ret.id>>

C30_Step ==
    \A l \in user_lists :
        (/\ ~l.is_public
         /\ Returned("toggle_like_list") \/ Returned("add_list_comment")
         /\ ret'.subject = l.id /\ ret'.actor # l.user_id) =>
            /\ ret'.status # "ok"
            /\ ToggleLikeHttp(ret'.status) # 200 /\ AddListCommentHttp(ret'.status) # 200
            /\ \E l2 \in user_lists' :
                  /\ l2.id = l.id
                  /\ l2.likes_count = l.likes_count /\ l2.comments_count = l.comments_count /\ l2.updated_at = l.updated_at

\* C30: a toggle_like_list or add_list_comment request on a private list by a user who
\* is not its owner is rejected, and the list's likes_count, comments_count and
\* updated_at stay as they were.
C30_PrivateListUnchangedByOthers == [][C30_Step]_vars

====
